---- MODULE Spec2Model ----
(***************************************************************************)
(* Verification model of the domain core of controle-financeiro:           *)
(*   Money      packages/domain/src/value-objects/Money.ts                 *)
(*   SplitRule  packages/domain/src/value-objects/SplitRule.ts             *)
(*   Goal       packages/domain/src/entities/Goal.ts                       *)
(*   Agreement  packages/domain/src/entities/Transaction.ts                *)
(*   Household  packages/domain/src/entities/Household.ts                  *)
(*   BudgetEnvelope  packages/domain/src/entities/Partner.ts               *)
(*                                                                         *)
(* Each component has its own specification (SpecMoney, SpecSplit,         *)
(* SpecGoal, SpecAgreement, SpecHousehold, SpecEnvelope, SpecCopies); the  *)
(* variables of the other components keep their idle value.                *)
(***************************************************************************)
EXTENDS Integers, Sequences, FiniteSets, TLC

VARIABLES
    calc,     \* Money: the last binary operation, its operands and its outcome
    chain,    \* Money: a running add/subtract chain and the integer sum of its operands
    rule,     \* SplitRule: the constructed rule's _config (or NoRule)
    splitCall,\* SplitRule: the last constructor/split call, its arguments and its outcome
    goal,     \* Goal: the entity's private fields
    last,     \* Goal: the last call on the goal, its arguments and whether it threw
    now,      \* the system clock that `new Date()` reads, in milliseconds
    agreement,     \* Agreement: the entity's private fields
    agreementCall, \* Agreement: the last call, its arguments and its outcome
    succeeded,     \* Agreement: how many history-recording calls have returned
    held,          \* a caller's array obtained from the accessor Agreement.history
    household,     \* Household: the entity's _agreements, as references into `pool`
    pool,          \* Household: the Agreement objects the callers hold
    householdCall, \* Household: the last call, its arguments and its outcome
    envelope,      \* BudgetEnvelope: the entity's private fields
    envelopeCall,  \* BudgetEnvelope: the last call, its arguments and its outcome
    transaction,     \* Transaction: the entity's private fields
    transactionCall, \* Transaction: the last call and whether it threw
    accounts,        \* Account: the private fields of each Account object
    accountCall,     \* Account: the last call and whether it threw
    aliasHeap,       \* SplitRule: the objects a caller and a rule both reach
    aliasCall,       \* SplitRule: the last step of the caller on those objects
    constructed,     \* entities: the last constructor call and its outcome
    rounded,         \* Money: the last rounding operation on doubles and its outcome
    repository,      \* HouseholdRepository: the households saved so far
    executions       \* CreateHousehold: each running execute call, its dto and position

vars == <<calc, chain, rule, splitCall, goal, last, now, agreement, agreementCall,
          succeeded, held, household, pool, householdCall, envelope, envelopeCall,
          transaction, transactionCall, accounts, accountCall,
          aliasHeap, aliasCall, constructed, rounded, repository, executions>>

moneyVars == <<calc, chain>>
splitVars == <<rule, splitCall>>
goalVars  == <<goal, last>>
agreementVars == <<agreement, agreementCall, succeeded, held>>
householdVars == <<household, pool, householdCall>>
envelopeVars  == <<envelope, envelopeCall>>
transactionVars == <<transaction, transactionCall>>
accountVars == <<accounts, accountCall>>
aliasVars == <<aliasHeap, aliasCall>>
repositoryVars == <<repository, executions>>
entityVars == <<moneyVars, splitVars, goalVars, agreementVars, householdVars, envelopeVars,
                transactionVars, accountVars>>

\* what the steps of one component leave alone
exceptMoney     == <<splitVars, goalVars, now, agreementVars, householdVars, envelopeVars, transactionVars, accountVars, aliasVars, constructed, rounded, repositoryVars>>
exceptSplit     == <<moneyVars, goalVars, now, agreementVars, householdVars, envelopeVars, transactionVars, accountVars, aliasVars, constructed, rounded, repositoryVars>>
exceptGoal      == <<moneyVars, splitVars, now, agreementVars, householdVars, envelopeVars, transactionVars, accountVars, aliasVars, constructed, rounded, repositoryVars>>
exceptAgreement == <<moneyVars, splitVars, goalVars, householdVars, envelopeVars, transactionVars, accountVars, aliasVars, constructed, rounded, repositoryVars>>
exceptHousehold == <<moneyVars, splitVars, goalVars, agreementVars, envelopeVars, transactionVars, accountVars, aliasVars, constructed, rounded, repositoryVars>>
exceptEnvelope  == <<moneyVars, splitVars, goalVars, now, agreementVars, householdVars,
                     transactionVars, accountVars, aliasVars, constructed, rounded, repositoryVars>>
exceptTransaction == <<moneyVars, splitVars, goalVars, now, agreementVars, householdVars,
                       envelopeVars, accountVars, aliasVars, constructed, rounded, repositoryVars>>
exceptAccount == <<moneyVars, splitVars, goalVars, now, agreementVars, householdVars,
                   envelopeVars, transactionVars, aliasVars, constructed, rounded, repositoryVars>>

exceptAlias == <<entityVars, now, constructed, rounded, repositoryVars>>
exceptConstructed == <<entityVars, now, aliasVars, rounded, repositoryVars>>
exceptRounded == <<entityVars, now, aliasVars, constructed, repositoryVars>>
exceptRepository == <<entityVars, now, aliasVars, constructed, rounded>>

----------------------------------------------------------------------------
(* Bounds of the model *)

\* largest magnitude, in cents, of an enumerated Money operand
MaxCents == 3
\* longest add/subtract chain
MaxChainLen == 3

Currencies == {"BRL", "USD"}

\* a call that returned `v`, and a call that threw
Ok(v)    == [ok |-> TRUE, value |-> v]
Err(msg) == [ok |-> FALSE, error |-> msg]

----------------------------------------------------------------------------
(* Money *)

Abs(x) == IF x < 0 THEN 0 - x ELSE x

RECURSIVE GCD(_, _)
GCD(a, b) == IF b = 0 THEN a ELSE GCD(b, a % b)

\* mutant: Math.floor in place of Math.round
MathRound_floor(n, d) == IF d > 0 THEN n \div d ELSE (0 - n) \div (0 - d)

\* Math.round(x) for x = n/d: the integer nearest to x, ties towards +infinity
MathRound(n, d) ==
    IF d > 0 THEN (2 * n + d) \div (2 * d)
             ELSE (2 * (0 - n) + (0 - d)) \div (2 * (0 - d))

\* new Money(amount, currency) for the decimal amount num/den:
\* _amountInCents = Math.round(amount * 100).  The double arithmetic is
\* modelled on exact rationals; for the operands this model enumerates the
\* doubles round to the same cents.
NewMoney(num, den, currency) ==
    LET g == GCD(Abs(num), Abs(den))
    IN  [currency |-> currency,
         amountInCents |-> MathRound((num \div g) * 100, den \div g)]

\* Money.fromCents(amountInCents, currency) = new Money(amountInCents / 100, currency)
Money_fromCents(amountInCents, currency) == NewMoney(amountInCents, 100, currency)

\* Money.zero(currency) = new Money(0, currency)
Money_zero(currency) == NewMoney(0, 1, currency)

\* mutant: the currency check is missing
ensureSameCurrency_missing(this, other) == TRUE

\* ensureSameCurrency: TRUE when it returns, FALSE when it throws
ensureSameCurrency(this, other) == this.currency = other.currency

CurrencyError == Err("Cannot perform operation with different currencies")

\* mutant: the sum of cents is passed to the constructor as an amount
Money_add_unscaled(this, other) ==
    IF ~ensureSameCurrency(this, other) THEN CurrencyError
    ELSE Ok(NewMoney(this.amountInCents + other.amountInCents, 1, this.currency))

Money_add(this, other) ==
    IF ~ensureSameCurrency(this, other) THEN CurrencyError
    ELSE Ok(NewMoney(this.amountInCents + other.amountInCents, 100, this.currency))

Money_subtract(this, other) ==
    IF ~ensureSameCurrency(this, other) THEN CurrencyError
    ELSE Ok(NewMoney(this.amountInCents - other.amountInCents, 100, this.currency))

\* multiply(factor) for the factor fnum/fden:
\* new Money((_amountInCents * factor) / 100, currency)
Money_multiply(this, fnum, fden) ==
    NewMoney(this.amountInCents * fnum, fden * 100, this.currency)

\* divide(divisor) for an integer divisor:
\* new Money(_amountInCents / (divisor * 100), currency)
Money_divide(this, divisor) ==
    IF divisor = 0 THEN Err("Divisor must be a non-zero finite number")
    ELSE Ok(NewMoney(this.amountInCents, divisor * 100, this.currency))

Money_isPositive(this) == this.amountInCents > 0
Money_isNegative(this) == this.amountInCents < 0
Money_isZero(this)     == this.amountInCents = 0

Money_equals(this, other) ==
    /\ this.amountInCents = other.amountInCents
    /\ this.currency = other.currency

Money_compareTo(this, other) ==
    IF ~ensureSameCurrency(this, other) THEN CurrencyError
    ELSE Ok(this.amountInCents - other.amountInCents)

\* the four comparisons apply their test to compareTo's number, and throw when it throws
Money_isGreaterThan(this, other) ==
    LET c == Money_compareTo(this, other) IN IF c.ok THEN Ok(c.value > 0) ELSE c

Money_isLessThan(this, other) ==
    LET c == Money_compareTo(this, other) IN IF c.ok THEN Ok(c.value < 0) ELSE c

Money_isGreaterThanOrEqual(this, other) ==
    LET c == Money_compareTo(this, other) IN IF c.ok THEN Ok(c.value >= 0) ELSE c

Money_isLessThanOrEqual(this, other) ==
    LET c == Money_compareTo(this, other) IN IF c.ok THEN Ok(c.value <= 0) ELSE c

----------------------------------------------------------------------------
(* The Money operands the specifications draw from *)

\* new Money(0.1) and new Money(0.2), the operands of the precision test
PointOne == NewMoney(1, 10, "BRL")
PointTwo == NewMoney(2, 10, "BRL")

MoneyInputs ==
    {Money_fromCents(c, cur) : c \in (0 - MaxCents)..MaxCents, cur \in Currencies}
    \cup {PointOne, PointTwo}

NoCall == [op |-> "none"]

\* a chain that starts at m
NewChain(m) == [acc |-> m, sum |-> m.amountInCents, len |-> 0]

\* one binary operation is applied to a pair of operands
BinaryCall(op, a, b, result) ==
    /\ calc = NoCall
    /\ calc' = [a |-> a, b |-> b, op |-> op, result |-> result]
    /\ UNCHANGED <<chain, exceptMoney>>

DoAdd == \E a, b \in MoneyInputs : BinaryCall("add", a, b, Money_add(a, b))
DoSubtract == \E a, b \in MoneyInputs : BinaryCall("subtract", a, b, Money_subtract(a, b))
DoCompareTo == \E a, b \in MoneyInputs : BinaryCall("compareTo", a, b, Money_compareTo(a, b))
DoIsGreaterThan ==
    \E a, b \in MoneyInputs : BinaryCall("isGreaterThan", a, b, Money_isGreaterThan(a, b))
DoIsLessThan ==
    \E a, b \in MoneyInputs : BinaryCall("isLessThan", a, b, Money_isLessThan(a, b))
DoIsGreaterThanOrEqual ==
    \E a, b \in MoneyInputs :
        BinaryCall("isGreaterThanOrEqual", a, b, Money_isGreaterThanOrEqual(a, b))
DoIsLessThanOrEqual ==
    \E a, b \in MoneyInputs :
        BinaryCall("isLessThanOrEqual", a, b, Money_isLessThanOrEqual(a, b))

\* acc = acc.add(x) / acc = acc.subtract(x): a throwing call leaves acc as it was
ChainStep(op, x, result, delta) ==
    /\ calc = NoCall \/ chain.len > 0
    /\ chain.len < MaxChainLen
    /\ calc' = [a |-> chain.acc, b |-> x, op |-> op, result |-> result]
    /\ chain' = IF result.ok
                THEN [acc |-> result.value, sum |-> chain.sum + delta, len |-> chain.len + 1]
                ELSE chain
    /\ UNCHANGED exceptMoney

ChainAdd ==
    \E x \in MoneyInputs : ChainStep("add", x, Money_add(chain.acc, x), x.amountInCents)
ChainSubtract ==
    \E x \in MoneyInputs :
        ChainStep("subtract", x, Money_subtract(chain.acc, x), 0 - x.amountInCents)

NextMoney ==
    \/ DoAdd
    \/ DoSubtract
    \/ DoCompareTo
    \/ DoIsGreaterThan
    \/ DoIsLessThan
    \/ DoIsGreaterThanOrEqual
    \/ DoIsLessThanOrEqual
    \/ ChainAdd
    \/ ChainSubtract

----------------------------------------------------------------------------
(* SplitRule *)

\* most partners in an enumerated rule
MaxPartners == 3
\* largest enumerated amount to split, in cents
MaxAmount == 5

\* an optional value: Undefined, or Some(x)
Undefined == <<>>
Some(x)   == <<x>>

EQUAL        == "equal"
PROPORTIONAL == "proportional"
FIXED        == "fixed"
CUSTOM       == "custom"
SplitTypes   == {EQUAL, PROPORTIONAL, FIXED, CUSTOM}

\* a/b as a fraction in lowest terms (b # 0): the value of a double quotient
Ratio(a, b) ==
    LET g == GCD(Abs(a), Abs(b))
    IN  IF b > 0 THEN [num |-> a \div g, den |-> b \div g]
                 ELSE [num |-> (0 - a) \div g, den |-> (0 - b) \div g]

\* validateFixedConfig: TRUE when it returns, FALSE when it throws
validateFixedConfig(config) ==
    \A i \in 1..Len(config.partners) :
        /\ config.partners[i].fixedAmount # Undefined
        /\ ~Money_isNegative(config.partners[i].fixedAmount[1])

\* validateCustomConfig: TRUE when it returns, FALSE when it throws
validateCustomConfig(config) ==
    \A i \in 1..Len(config.partners) : config.partners[i].customAmount # Undefined

\* mutant: partner ids are not compared with each other
validateConfig_allowDuplicates(config) ==
    /\ config.type # ""
    /\ Len(config.partners) # 0
    /\ config.effectiveFrom # Undefined
    /\ config.type = FIXED => validateFixedConfig(config)
    /\ config.type = CUSTOM => validateCustomConfig(config)

\* validateConfig: TRUE when it returns, FALSE when it throws
validateConfig(config) ==
    /\ config.type # ""
    /\ Len(config.partners) # 0
    /\ config.effectiveFrom # Undefined
    /\ Cardinality({config.partners[i].partnerId : i \in 1..Len(config.partners)})
           = Len(config.partners)
    /\ config.type = FIXED => validateFixedConfig(config)
    /\ config.type = CUSTOM => validateCustomConfig(config)

\* mutant: a zero amount passes
validateAmount_zeroPasses(amount) ==
    IF Money_isNegative(amount) THEN Err("Cannot split negative amounts")
    ELSE Ok(TRUE)

\* validateAmount: Ok, or the error it throws
validateAmount(amount) ==
    IF Money_isNegative(amount) THEN Err("Cannot split negative amounts")
    ELSE IF Money_isZero(amount) THEN Err("Cannot split zero amounts")
    ELSE Ok(TRUE)

SplitResult(partnerId, amount, percentage) ==
    [partnerId |-> partnerId, amount |-> amount, percentage |-> percentage]

splitEqually(config, amount) ==
    LET partnerCount == Len(config.partners)
        amountPerPartner == Money_divide(amount, partnerCount)
    IN  IF partnerCount = 0 THEN Err("No partners defined for equal split")
        ELSE Ok([i \in 1..partnerCount |->
                    SplitResult(config.partners[i].partnerId,
                                amountPerPartner.value,
                                Ratio(100, partnerCount))])

\* the validation loop of splitProportionally from partner i on, totalIncome so far
RECURSIVE IncomeLoop(_, _, _, _, _)
IncomeLoop(partners, incomes, amount, i, totalIncome) ==
    IF i > Len(partners) THEN Ok(totalIncome)
    ELSE LET id == partners[i].partnerId
         IN  IF id \notin DOMAIN incomes THEN Err("Income not found for partner")
             ELSE IF incomes[id].currency # amount.currency
                  THEN Err("Income currency mismatch for partner")
             ELSE IF Money_isNegative(incomes[id]) \/ Money_isZero(incomes[id])
                  THEN Err("Invalid income for partner")
             ELSE IncomeLoop(partners, incomes, amount, i + 1,
                             Money_add(totalIncome, incomes[id]).value)

\* mutant: the share is cut off at the cent instead of rounded
splitProportionally_truncated(config, amount, partnerIncomes) ==
    IF partnerIncomes = Undefined
    THEN Err("Partner incomes required for proportional split")
    ELSE LET incomes == partnerIncomes[1]
             loop == IncomeLoop(config.partners, incomes, amount, 1,
                                Money_zero(amount.currency))
         IN  IF ~loop.ok THEN loop
             ELSE IF Money_isZero(loop.value) THEN Err("Total income cannot be zero")
             ELSE LET totalIncome == loop.value
                      factor(i) == Ratio(incomes[config.partners[i].partnerId].amountInCents,
                                         totalIncome.amountInCents)
                  IN  Ok([i \in 1..Len(config.partners) |->
                            SplitResult(config.partners[i].partnerId,
                                        Money_fromCents((amount.amountInCents * factor(i).num)
                                                            \div factor(i).den,
                                                        amount.currency),
                                        Ratio(factor(i).num * 100, factor(i).den))])

splitProportionally(config, amount, partnerIncomes) ==
    IF partnerIncomes = Undefined
    THEN Err("Partner incomes required for proportional split")
    ELSE LET incomes == partnerIncomes[1]
             loop == IncomeLoop(config.partners, incomes, amount, 1,
                                Money_zero(amount.currency))
         IN  IF ~loop.ok THEN loop
             ELSE IF Money_isZero(loop.value) THEN Err("Total income cannot be zero")
             ELSE LET totalIncome == loop.value
                      \* percentage / 100 = income.amount / totalIncome.amount
                      factor(i) == Ratio(incomes[config.partners[i].partnerId].amountInCents,
                                         totalIncome.amountInCents)
                  IN  Ok([i \in 1..Len(config.partners) |->
                            SplitResult(config.partners[i].partnerId,
                                        Money_multiply(amount, factor(i).num, factor(i).den),
                                        Ratio(factor(i).num * 100, factor(i).den))])

\* the validation loop of splitByFixedAmounts from partner i on, totalFixedAmount so far
RECURSIVE FixedLoop(_, _, _, _)
FixedLoop(partners, amount, i, totalFixedAmount) ==
    IF i > Len(partners) THEN Ok(totalFixedAmount)
    ELSE LET p == partners[i]
         IN  IF p.fixedAmount = Undefined THEN Err("Fixed amount required for partner")
             ELSE IF p.fixedAmount[1].currency # amount.currency
                  THEN Err("Fixed amount currency mismatch for partner")
             ELSE IF Money_isNegative(p.fixedAmount[1])
                  THEN Err("Fixed amount cannot be negative for partner")
             ELSE FixedLoop(partners, amount, i + 1,
                            Money_add(totalFixedAmount, p.fixedAmount[1]).value)

\* mutant: pure fixed allocation, the remainder is not distributed
splitByFixedAmounts_noRemainder(config, amount) ==
    LET loop == FixedLoop(config.partners, amount, 1, Money_zero(amount.currency))
    IN  IF ~loop.ok THEN loop
        ELSE IF Money_isGreaterThan(loop.value, amount).value
             THEN Err("Total fixed amounts exceed the transaction amount")
        ELSE Ok([i \in 1..Len(config.partners) |->
                   SplitResult(config.partners[i].partnerId,
                               config.partners[i].fixedAmount[1],
                               Ratio(config.partners[i].fixedAmount[1].amountInCents * 100,
                                     amount.amountInCents))])

splitByFixedAmounts(config, amount) ==
    LET loop == FixedLoop(config.partners, amount, 1, Money_zero(amount.currency))
    IN  IF ~loop.ok THEN loop
        ELSE IF Money_isGreaterThan(loop.value, amount).value
             THEN Err("Total fixed amounts exceed the transaction amount")
        ELSE LET remainingAmount == Money_subtract(amount, loop.value).value
                 remainingPartnerCount == Len(config.partners)
                 additionalAmountPerPartner ==
                     Money_divide(remainingAmount, remainingPartnerCount).value
                 finalAmount(i) ==
                     Money_add(config.partners[i].fixedAmount[1],
                               additionalAmountPerPartner).value
             IN  Ok([i \in 1..Len(config.partners) |->
                       SplitResult(config.partners[i].partnerId,
                                   finalAmount(i),
                                   Ratio(finalAmount(i).amountInCents * 100,
                                         amount.amountInCents))])

\* the validation loop of splitByCustomAmounts from partner i on, totalCustomAmount so far
RECURSIVE CustomLoop(_, _, _, _)
CustomLoop(partners, amount, i, totalCustomAmount) ==
    IF i > Len(partners) THEN Ok(totalCustomAmount)
    ELSE LET p == partners[i]
         IN  IF p.customAmount = Undefined THEN Err("Custom amount required for partner")
             ELSE IF p.customAmount[1].currency # amount.currency
                  THEN Err("Custom amount currency mismatch for partner")
             ELSE CustomLoop(partners, amount, i + 1,
                             Money_add(totalCustomAmount, p.customAmount[1]).value)

\* mutant: the sum of the custom amounts is not compared with the amount
splitByCustomAmounts_noSumCheck(config, amount) ==
    LET loop == CustomLoop(config.partners, amount, 1, Money_zero(amount.currency))
    IN  IF ~loop.ok THEN loop
        ELSE Ok([i \in 1..Len(config.partners) |->
                   SplitResult(config.partners[i].partnerId,
                               config.partners[i].customAmount[1],
                               Ratio(config.partners[i].customAmount[1].amountInCents * 100,
                                     amount.amountInCents))])

splitByCustomAmounts(config, amount) ==
    LET loop == CustomLoop(config.partners, amount, 1, Money_zero(amount.currency))
    IN  IF ~loop.ok THEN loop
        ELSE IF ~Money_equals(loop.value, amount)
             THEN Err("Sum of custom amounts must equal the transaction amount")
        ELSE Ok([i \in 1..Len(config.partners) |->
                   SplitResult(config.partners[i].partnerId,
                               config.partners[i].customAmount[1],
                               Ratio(config.partners[i].customAmount[1].amountInCents * 100,
                                     amount.amountInCents))])

\* SplitRule.split(amount, partnerIncomes): Ok(results), or the error it throws
SplitRule_split(config, amount, partnerIncomes) ==
    IF ~validateAmount(amount).ok THEN validateAmount(amount)
    ELSE CASE config.type = EQUAL        -> splitEqually(config, amount)
           [] config.type = PROPORTIONAL -> splitProportionally(config, amount, partnerIncomes)
           [] config.type = FIXED        -> splitByFixedAmounts(config, amount)
           [] config.type = CUSTOM       -> splitByCustomAmounts(config, amount)
           [] OTHER                      -> Err("Unsupported split type")

\* validateSplit(totalAmount, results)
RECURSIVE SumResults(_, _, _)
SumResults(results, i, acc) ==
    IF i > Len(results) THEN acc
    ELSE SumResults(results, i + 1, Money_add(acc, results[i].amount).value)

SplitRule_validateSplit(totalAmount, results) ==
    Money_equals(SumResults(results, 1, Money_zero(totalAmount.currency)), totalAmount)

----------------------------------------------------------------------------
(* The rules, amounts and incomes the split specification draws from *)

BRL(cents) == Money_fromCents(cents, "BRL")
USD(cents) == Money_fromCents(cents, "USD")

SplitMoney == {BRL(c) : c \in (0 - 1)..MaxCents} \cup {USD(1)}
OptionalMoney == {Undefined} \cup {Some(m) : m \in SplitMoney}

SplitPartner(partnerId, fixedAmount, customAmount) ==
    [fixedAmount |-> fixedAmount, customAmount |-> customAmount, partnerId |-> partnerId]

\* partner ids 1..n in order, and one list that repeats an id
IdLists == {[i \in 1..n |-> i] : n \in 0..MaxPartners} \cup {<<1, 1>>}

PartnerLists(type) ==
    LET fixedChoices  == IF type = FIXED THEN OptionalMoney ELSE {Undefined}
        customChoices == IF type = CUSTOM THEN OptionalMoney ELSE {Undefined}
    IN  UNION {
          {[i \in 1..Len(ids) |-> SplitPartner(ids[i], f[i], c[i])] :
              f \in [1..Len(ids) -> fixedChoices], c \in [1..Len(ids) -> customChoices]}
          : ids \in IdLists}

SplitConfig(type, partners, effectiveFrom) ==
    [partners |-> partners, type |-> type, effectiveFrom |-> effectiveFrom]

\* the documented examples, in cents
FixedExample ==
    SplitConfig(FIXED,
                <<SplitPartner(1, Some(BRL(3000)), Undefined),
                  SplitPartner(2, Some(BRL(2000)), Undefined)>>, Some(1))
CustomExampleOk ==
    SplitConfig(CUSTOM,
                <<SplitPartner(1, Undefined, Some(BRL(4000))),
                  SplitPartner(2, Undefined, Some(BRL(6000)))>>, Some(1))
CustomExampleBad ==
    SplitConfig(CUSTOM,
                <<SplitPartner(1, Undefined, Some(BRL(4000))),
                  SplitPartner(2, Undefined, Some(BRL(5000)))>>, Some(1))
ProportionalExample ==
    SplitConfig(PROPORTIONAL,
                <<SplitPartner(1, Undefined, Undefined),
                  SplitPartner(2, Undefined, Undefined)>>, Some(1))
EqualExample ==
    SplitConfig(EQUAL,
                <<SplitPartner(1, Undefined, Undefined),
                  SplitPartner(2, Undefined, Undefined),
                  SplitPartner(3, Undefined, Undefined)>>, Some(1))
ExampleIncomes == (1 :> BRL(450000)) @@ (2 :> BRL(320000))
ExampleAmounts == {BRL(10000), BRL(100000)}

SplitConfigs ==
    UNION {{SplitConfig(t, ps, Some(1)) : ps \in PartnerLists(t)} : t \in SplitTypes}
    \cup {SplitConfig("", <<SplitPartner(1, Undefined, Undefined)>>, Some(1)),
          SplitConfig(EQUAL, <<SplitPartner(1, Undefined, Undefined)>>, Undefined)}
    \cup {FixedExample, CustomExampleOk, CustomExampleBad}

SplitAmounts == {BRL(c) : c \in (0 - 1)..MaxAmount} \cup {USD(1)} \cup ExampleAmounts

\* an income map: each partner id has one of the enumerated incomes, or none
IncomeMaps ==
    {[id \in {i \in 1..MaxPartners : f[i] # Undefined} |-> f[id][1]] :
        f \in [1..MaxPartners -> OptionalMoney]}
    \cup {ExampleIncomes}

\* incomes are read by the proportional strategy alone
PartnerIncomes(config) ==
    IF config.type = PROPORTIONAL
    THEN {Undefined} \cup {Some(m) : m \in IncomeMaps}
    ELSE {Undefined, Some(ExampleIncomes)}

\* new SplitRule(config): validateConfig, then _config = {...config}
Construct ==
    /\ rule = Undefined
    /\ splitCall = NoCall
    /\ \E config \in SplitConfigs :
          IF validateConfig(config)
          THEN /\ rule' = Some(config)
               /\ splitCall' = [ok |-> TRUE, op |-> "construct"]
          ELSE /\ rule' = Undefined
               /\ splitCall' = [ok |-> FALSE, op |-> "construct", config |-> config]
    /\ UNCHANGED exceptSplit

\* rule.split(amount, partnerIncomes)
Split ==
    /\ rule # Undefined
    /\ splitCall.op = "construct"
    /\ \E amount \in SplitAmounts, partnerIncomes \in PartnerIncomes(rule[1]) :
          splitCall' = [op |-> "split",
                        result |-> SplitRule_split(rule[1], amount, partnerIncomes),
                        amount |-> amount,
                        partnerIncomes |-> partnerIncomes]
    /\ UNCHANGED <<rule, exceptSplit>>

NextSplit ==
    \/ Construct
    \/ Split

----------------------------------------------------------------------------
(* Goal *)

\* most entries kept in an enumerated contribution history
MaxHistory == 2
\* largest enumerated target or contribution, in cents
MaxGoalCents == 2

ACTIVE    == "active"
PAUSED    == "paused"
COMPLETED == "completed"
CANCELLED == "cancelled"
GoalStatus == {ACTIVE, PAUSED, COMPLETED, CANCELLED}

Goal_isPaused(g)    == g.status = PAUSED
Goal_isCompleted(g) == g.status = COMPLETED
Goal_isCancelled(g) == g.status = CANCELLED

\* new Goal(householdId, name, type, targetAmount, targetDate, ownerIds):
\* the constructor assigns its arguments and validates none of them
NewGoal(targetAmount) ==
    [status |-> ACTIVE,
     targetAmount |-> targetAmount,
     currentAmount |-> Money_zero(targetAmount.currency),
     contributionHistory |-> <<>>]

\* getRemainingAmount(): targetAmount.subtract(currentAmount)
Goal_getRemainingAmount(g) == Money_subtract(g.targetAmount, g.currentAmount).value

\* mutant: the completion check uses isGreaterThan
CompleteIfReached_strict(g) ==
    IF Money_isGreaterThan(g.currentAmount, g.targetAmount).value
    THEN [g EXCEPT !.status = COMPLETED, !.currentAmount = g.targetAmount]
    ELSE g

\* the completion check that ends addContribution and updateTargetAmount
CompleteIfReached(g) ==
    IF Money_isGreaterThanOrEqual(g.currentAmount, g.targetAmount).value
    THEN [g EXCEPT !.status = COMPLETED, !.currentAmount = g.targetAmount]
    ELSE g

\* mutant: the contribution is not compared with the remaining amount
Goal_addContribution_noRemainingCheck(g, amount, contributorId, id, date) ==
    IF Goal_isCompleted(g) THEN Err("Cannot add contribution to completed goal")
    ELSE IF Goal_isCancelled(g) THEN Err("Cannot add contribution to cancelled goal")
    ELSE IF amount.currency # g.targetAmount.currency
         THEN Err("Contribution currency must match goal currency")
    ELSE IF Money_isNegative(amount) \/ Money_isZero(amount)
         THEN Err("Contribution amount must be positive")
    ELSE Ok(CompleteIfReached(
                [g EXCEPT !.currentAmount = Money_add(g.currentAmount, amount).value,
                          !.contributionHistory =
                              Append(g.contributionHistory,
                                     [amount |-> amount, id |-> id,
                                      contributorId |-> contributorId, date |-> date])]))

\* addContribution(amount, contributorId, ...), the new entry getting `id` (a fresh uuid):
\* Ok(the goal after the call), or the error it throws
Goal_addContribution(g, amount, contributorId, id, date) ==
    IF Goal_isCompleted(g) THEN Err("Cannot add contribution to completed goal")
    ELSE IF Goal_isCancelled(g) THEN Err("Cannot add contribution to cancelled goal")
    ELSE IF amount.currency # g.targetAmount.currency
         THEN Err("Contribution currency must match goal currency")
    ELSE IF Money_isNegative(amount) \/ Money_isZero(amount)
         THEN Err("Contribution amount must be positive")
    ELSE IF Money_isGreaterThan(amount, Goal_getRemainingAmount(g)).value
         THEN Err("Contribution exceeds remaining amount needed")
    ELSE Ok(CompleteIfReached(
                [g EXCEPT !.currentAmount = Money_add(g.currentAmount, amount).value,
                          !.contributionHistory =
                              Append(g.contributionHistory,
                                     [amount |-> amount, id |-> id,
                                      contributorId |-> contributorId, date |-> date])]))

\* findIndex(c => c.id === contributionId): the first index, 0 for none
FindIndex(history, contributionId) ==
    IF \E i \in 1..Len(history) : history[i].id = contributionId
    THEN CHOOSE i \in 1..Len(history) :
            /\ history[i].id = contributionId
            /\ \A j \in 1..(i - 1) : history[j].id # contributionId
    ELSE 0

\* splice(index, 1)
Splice(seq, index) ==
    [i \in 1..(Len(seq) - 1) |-> IF i < index THEN seq[i] ELSE seq[i + 1]]

\* mutant: a completed goal stays completed after a removal
Goal_removeContribution_keepStatus(g, contributionId) ==
    LET index == FindIndex(g.contributionHistory, contributionId)
    IN  IF index = 0 THEN Err("Contribution not found")
        ELSE Ok([g EXCEPT
                   !.currentAmount =
                       Money_subtract(g.currentAmount,
                                      g.contributionHistory[index].amount).value,
                   !.contributionHistory = Splice(g.contributionHistory, index)])

\* removeContribution(contributionId): Ok(the goal after the call), or the error
Goal_removeContribution(g, contributionId) ==
    LET index == FindIndex(g.contributionHistory, contributionId)
    IN  IF index = 0 THEN Err("Contribution not found")
        ELSE Ok([g EXCEPT
                   !.currentAmount =
                       Money_subtract(g.currentAmount,
                                      g.contributionHistory[index].amount).value,
                   !.contributionHistory = Splice(g.contributionHistory, index),
                   !.status = IF g.status = COMPLETED THEN ACTIVE ELSE g.status])

Goal_updateTargetAmount(g, newTargetAmount) ==
    IF newTargetAmount.currency # g.targetAmount.currency
    THEN Err("Target amount currency must match goal currency")
    ELSE IF Money_isNegative(newTargetAmount) \/ Money_isZero(newTargetAmount)
         THEN Err("Target amount must be positive")
    ELSE Ok(CompleteIfReached([g EXCEPT !.targetAmount = newTargetAmount]))

Goal_updateStatus(g, newStatus) == Ok([g EXCEPT !.status = newStatus])

\* mutant: pause does not look at the status
Goal_pause_unguarded(g) == Ok([g EXCEPT !.status = PAUSED])

\* pause()
Goal_pause(g) ==
    IF Goal_isCompleted(g) THEN Err("Cannot pause completed goal")
    ELSE Ok([g EXCEPT !.status = PAUSED])

Goal_resume(g) ==
    IF ~Goal_isPaused(g) THEN Err("Only paused goals can be resumed")
    ELSE Ok([g EXCEPT !.status = ACTIVE])

Goal_cancel(g) ==
    IF Goal_isCompleted(g) THEN Err("Cannot cancel completed goal")
    ELSE Ok([g EXCEPT !.status = CANCELLED])

Goal_complete(g) ==
    Ok([g EXCEPT !.status = COMPLETED, !.currentAmount = g.targetAmount])

----------------------------------------------------------------------------
(* The goal specification: a goal is constructed, then any calls are made on it *)

GoalMoney == {BRL(c) : c \in (0 - 1)..MaxGoalCents} \cup {USD(1)}
ContributorIds == {1}

\* uuidv4(): an id no entry of the history has
FreshId(history) ==
    CHOOSE id \in 1..(Len(history) + 1) :
        /\ \A i \in 1..Len(history) : history[i].id # id
        /\ \A other \in 1..(id - 1) : \E i \in 1..Len(history) : history[i].id = other

\* a call ends: the goal is as the call left it, or untouched when it threw
Returned(call, result) ==
    /\ goal' = IF result.ok THEN result.value ELSE goal
    /\ last' = [call EXCEPT !.ok = result.ok]
    /\ UNCHANGED exceptGoal

AddContribution ==
    /\ Len(goal.contributionHistory) < MaxHistory
    /\ \E amount \in GoalMoney, contributorId \in ContributorIds :
          Returned([ok |-> FALSE, op |-> "addContribution", amount |-> amount],
                   Goal_addContribution(goal, amount, contributorId,
                                        FreshId(goal.contributionHistory), now))

RemoveContribution ==
    \E contributionId \in 1..MaxHistory :
        Returned([ok |-> FALSE, op |-> "removeContribution", id |-> contributionId],
                 Goal_removeContribution(goal, contributionId))

UpdateTargetAmount ==
    \E newTargetAmount \in GoalMoney :
        Returned([ok |-> FALSE, op |-> "updateTargetAmount", amount |-> newTargetAmount],
                 Goal_updateTargetAmount(goal, newTargetAmount))

UpdateStatus ==
    \E newStatus \in GoalStatus :
        Returned([ok |-> FALSE, op |-> "updateStatus", status |-> newStatus],
                 Goal_updateStatus(goal, newStatus))

Pause    == Returned([ok |-> FALSE, op |-> "pause"], Goal_pause(goal))
Resume   == Returned([ok |-> FALSE, op |-> "resume"], Goal_resume(goal))
Cancel   == Returned([ok |-> FALSE, op |-> "cancel"], Goal_cancel(goal))
Complete == Returned([ok |-> FALSE, op |-> "complete"], Goal_complete(goal))

NextGoal ==
    \/ AddContribution
    \/ RemoveContribution
    \/ UpdateTargetAmount
    \/ UpdateStatus
    \/ Pause
    \/ Resume
    \/ Cancel
    \/ Complete

----------------------------------------------------------------------------
(* Agreement *)

\* latest reading of the clock
MaxTime == 1
\* most entries kept in an enumerated agreement history
MaxAgreementHistory == 3

INACTIVE   == "inactive"
SUSPENDED  == "suspended"
TERMINATED == "terminated"
AgreementStatus == {ACTIVE, INACTIVE, SUSPENDED, TERMINATED}

FIXED_EXPENSES    == "fixed_expenses"
VARIABLE_EXPENSES == "variable_expenses"
AgreementType == {FIXED_EXPENSES, VARIABLE_EXPENSES}

\* String.prototype.trim on the names the model passes
Trim(str) ==
    CASE str = " rent " -> "rent"
      [] str = "  " -> ""
      [] OTHER -> str

\* reason || fallback: an absent or empty reason gives the fallback text
OrElse(reason, fallback) ==
    IF reason = Undefined \/ reason = Some("") THEN fallback ELSE reason[1]

\* addHistoryEntry(changeType, timestamp, changedBy, reason, previousValues, newValues):
\* one entry with a fresh uuid is pushed on _history
Agreement_addHistoryEntry(a, changeType, timestamp, changedBy, reason, previousValues, newValues) ==
    [a EXCEPT !.history =
        Append(@, [id |-> FreshId(@),
                   reason |-> reason,
                   changeType |-> changeType,
                   timestamp |-> timestamp,
                   changedBy |-> changedBy,
                   previousValues |-> previousValues,
                   newValues |-> newValues])]

\* new Agreement(householdId, type, name, splitRule, effectiveFrom) at time `clock`
NewAgreement(type, name, splitRule, effectiveFrom, clock) ==
    Agreement_addHistoryEntry(
        [type |-> type,
         effectiveFrom |-> effectiveFrom,
         status |-> ACTIVE,
         history |-> <<>>,
         name |-> name,
         splitRule |-> splitRule,
         description |-> Undefined,
         effectiveUntil |-> Undefined,
         alerts |-> [enabled |-> TRUE, thresholdPercentage |-> 10,
                     emailNotification |-> TRUE, pushNotification |-> TRUE]],
        "created", clock, "system", "Agreement created", Undefined, Undefined)

\* mutant: isActiveOn does not look at effectiveUntil
Agreement_isActiveOn_openEnded(a, date) ==
    IF a.status # ACTIVE THEN FALSE
    ELSE IF date < a.effectiveFrom THEN FALSE
    ELSE TRUE

\* isActiveOn(date)
Agreement_isActiveOn(a, date) ==
    IF a.status # ACTIVE THEN FALSE
    ELSE IF date < a.effectiveFrom THEN FALSE
    ELSE IF a.effectiveUntil # Undefined THEN date <= a.effectiveUntil[1]
    ELSE TRUE

\* isActive(): isActiveOn(new Date())
Agreement_isActive(a, clock) == Agreement_isActiveOn(a, clock)

Agreement_updateName(a, newName, changedBy, reason, clock) ==
    IF newName = "" \/ Trim(newName) = ""
    THEN Err("Agreement name cannot be empty")
    ELSE Ok(Agreement_addHistoryEntry(
                [a EXCEPT !.name = Trim(newName)],
                "updated", clock, changedBy, OrElse(reason, "Name updated"),
                Some([name |-> a.name]), Some([name |-> Trim(newName)])))

Agreement_updateDescription(a, newDescription, changedBy, reason, clock) ==
    Ok(Agreement_addHistoryEntry(
           [a EXCEPT !.description = newDescription],
           "updated", clock, changedBy, OrElse(reason, "Description updated"),
           Some([description |-> a.description]),
           Some([description |-> newDescription])))

Agreement_updateSplitRule(a, newSplitRule, changedBy, reason, clock) ==
    Ok(Agreement_addHistoryEntry(
           [a EXCEPT !.splitRule = newSplitRule],
           "updated", clock, changedBy, OrElse(reason, "Split rule updated"),
           Some([splitRule |-> a.splitRule]), Some([splitRule |-> newSplitRule])))

\* a Date whose time value is NaN (new Date(NaN), new Date('x')), written as a
\* time no clock shows
InvalidDate == 0 - 1

\* toISOString(): a RangeError on an invalid Date
ToISOString(date) ==
    IF date = InvalidDate THEN Err("Invalid time value") ELSE Ok(date)

\* a call that threw after it had assigned: `left` is the state it leaves behind
Thrown(msg, left) == [ok |-> FALSE, error |-> msg, left |-> left]

\* updateEffectivePeriod: the fields are assigned first; the arguments of
\* addHistoryEntry are evaluated next, and toISOString throws on an invalid Date
Agreement_updateEffectivePeriod(a, newEffectiveFrom, newEffectiveUntil, changedBy, reason, clock) ==
    LET assigned == [a EXCEPT !.effectiveFrom = newEffectiveFrom,
                              !.effectiveUntil = newEffectiveUntil]
        dates == <<a.effectiveFrom>> \o a.effectiveUntil
                 \o <<newEffectiveFrom>> \o newEffectiveUntil
    IN  IF \E i \in 1..Len(dates) : ~ToISOString(dates[i]).ok
        THEN Thrown("Invalid time value", assigned)
        ELSE Ok(Agreement_addHistoryEntry(
                   assigned,
                   "updated", clock, changedBy, OrElse(reason, "Effective period updated"),
                   Some([effectiveFrom |-> a.effectiveFrom,
                         effectiveUntil |-> a.effectiveUntil]),
                   Some([effectiveFrom |-> newEffectiveFrom,
                         effectiveUntil |-> newEffectiveUntil])))

\* mutant: suspend does not look at the status
Agreement_suspend_unguarded(a, changedBy, reason, clock) ==
    Ok(Agreement_addHistoryEntry(
           [a EXCEPT !.status = SUSPENDED],
           "suspended", clock, changedBy, OrElse(reason, "Agreement suspended"),
           Undefined, Undefined))

Agreement_suspend(a, changedBy, reason, clock) ==
    IF a.status # ACTIVE
    THEN Err("Only active agreements can be suspended")
    ELSE Ok(Agreement_addHistoryEntry(
                [a EXCEPT !.status = SUSPENDED],
                "suspended", clock, changedBy, OrElse(reason, "Agreement suspended"),
                Undefined, Undefined))

Agreement_resume(a, changedBy, reason, clock) ==
    IF a.status # SUSPENDED
    THEN Err("Only suspended agreements can be resumed")
    ELSE Ok(Agreement_addHistoryEntry(
                [a EXCEPT !.status = ACTIVE],
                "resumed", clock, changedBy, OrElse(reason, "Agreement resumed"),
                Undefined, Undefined))

\* mutant: terminate leaves effectiveUntil as it was
Agreement_terminate_keepsUntil(a, changedBy, reason, clock) ==
    IF a.status = TERMINATED
    THEN Err("Agreement is already terminated")
    ELSE Ok(Agreement_addHistoryEntry(
                [a EXCEPT !.status = TERMINATED],
                "terminated", clock, changedBy, OrElse(reason, "Agreement terminated"),
                Undefined, Undefined))

Agreement_terminate(a, changedBy, reason, clock) ==
    IF a.status = TERMINATED
    THEN Err("Agreement is already terminated")
    ELSE Ok(Agreement_addHistoryEntry(
                [a EXCEPT !.status = TERMINATED, !.effectiveUntil = Some(clock)],
                "terminated", clock, changedBy, OrElse(reason, "Agreement terminated"),
                Undefined, Undefined))

\* { ...this._alerts, ...newAlerts }
Merge(base, partial) ==
    [k \in DOMAIN base |-> IF k \in DOMAIN partial THEN partial[k] ELSE base[k]]

\* mutant: updateAlerts records nothing in the history
Agreement_updateAlerts_unrecorded(a, newAlerts, changedBy, reason, clock) ==
    Ok([a EXCEPT !.alerts = Merge(a.alerts, newAlerts)])

Agreement_updateAlerts(a, newAlerts, changedBy, reason, clock) ==
    Ok(Agreement_addHistoryEntry(
           [a EXCEPT !.alerts = Merge(a.alerts, newAlerts)],
           "updated", clock, changedBy, OrElse(reason, "Alerts updated"),
           Some([alerts |-> a.alerts]),
           Some([alerts |-> Merge(a.alerts, newAlerts)])))

\* getHistoryInPeriod(startDate, endDate): a filtered copy
Agreement_getHistoryInPeriod(a, startDate, endDate) ==
    SelectSeq(a.history, LAMBDA entry : entry.timestamp >= startDate
                                         /\ entry.timestamp <= endDate)

\* one step of the stable sort: `entry` goes behind the entries that are not older
InsertByTimestampDesc(sorted, entry) ==
    LET k == Cardinality({i \in 1..Len(sorted) : sorted[i].timestamp >= entry.timestamp})
    IN  SubSeq(sorted, 1, k) \o <<entry>> \o SubSeq(sorted, k + 1, Len(sorted))

\* Array.prototype.sort((a, b) => b.timestamp - a.timestamp): newest first, and
\* entries of one timestamp in the order they had
RECURSIVE SortByTimestampDesc(_)
SortByTimestampDesc(entries) ==
    IF entries = <<>> THEN <<>>
    ELSE InsertByTimestampDesc(SortByTimestampDesc(SubSeq(entries, 1, Len(entries) - 1)),
                               entries[Len(entries)])

\* slice(0, limit)
Slice(seq, limit) == SubSeq(seq, 1, IF limit < Len(seq) THEN limit ELSE Len(seq))

\* getRecentHistory(limit): _history.sort(...) sorts the stored array itself,
\* slice copies its first `limit` entries
Agreement_getRecentHistory(a, limit) ==
    [agreement |-> [a EXCEPT !.history = SortByTimestampDesc(@)],
     value |-> Slice(SortByTimestampDesc(a.history), limit)]

----------------------------------------------------------------------------
(* The agreement specification: an agreement is constructed, the clock runs
   and any calls are made on it *)

Times == 0..MaxTime
ActorIds == {"p1"}
Reasons == {Undefined, Some("why")}
\* terminate is also called with an empty reason
TerminateReasons == Reasons \cup {Some("")}
AgreementNames == {"", "  ", " rent "}
Descriptions == {Some("shared rent")}
EffectivePeriods == {<<1, Some(1)>>}
PartialAlerts == {[enabled |-> FALSE]}
\* the dates isActiveOn is asked about: up to one past the last clock value
Dates == 0..(MaxTime + 1)
Limits == {1, 10}
Periods == {<<1, MaxTime>>}

\* the clock advances
Tick ==
    /\ now < MaxTime
    /\ now' = now + 1
    /\ UNCHANGED <<householdVars, exceptHousehold>>

\* a history-recording call ends: the agreement is as the call left it, or
\* untouched when it threw
AgreementReturned(call, result) ==
    /\ held = Undefined
    /\ result.ok => Len(agreement.history) < MaxAgreementHistory
    /\ agreement' = IF result.ok THEN result.value
                    ELSE IF "left" \in DOMAIN result THEN result.left
                    ELSE agreement
    /\ agreementCall' = IF result.ok THEN [call EXCEPT !.ok = TRUE]
                        ELSE [ok |-> FALSE, op |-> call.op]
    /\ succeeded' = IF result.ok THEN succeeded + 1 ELSE succeeded
    /\ UNCHANGED <<now, held, exceptAgreement>>

UpdateName ==
    \E newName \in AgreementNames, changedBy \in ActorIds, reason \in Reasons :
        AgreementReturned(
            [ok |-> FALSE, op |-> "updateName", reason |-> reason,
             changedBy |-> changedBy],
            Agreement_updateName(agreement, newName, changedBy, reason, now))

UpdateDescription ==
    \E newDescription \in Descriptions, changedBy \in ActorIds, reason \in Reasons :
        AgreementReturned(
            [ok |-> FALSE, op |-> "updateDescription", reason |-> reason,
             changedBy |-> changedBy],
            Agreement_updateDescription(agreement, newDescription, changedBy, reason, now))

UpdateSplitRule ==
    \E changedBy \in ActorIds, reason \in Reasons :
        AgreementReturned(
            [ok |-> FALSE, op |-> "updateSplitRule", reason |-> reason,
             changedBy |-> changedBy],
            Agreement_updateSplitRule(agreement, FixedExample, changedBy, reason, now))

UpdateEffectivePeriod ==
    \E period \in EffectivePeriods, changedBy \in ActorIds, reason \in Reasons :
        AgreementReturned(
            [ok |-> FALSE, op |-> "updateEffectivePeriod", reason |-> reason,
             changedBy |-> changedBy],
            Agreement_updateEffectivePeriod(agreement, period[1], period[2],
                                            changedBy, reason, now))

UpdateAlerts ==
    \E newAlerts \in PartialAlerts, changedBy \in ActorIds, reason \in Reasons :
        AgreementReturned(
            [ok |-> FALSE, op |-> "updateAlerts", reason |-> reason,
             changedBy |-> changedBy],
            Agreement_updateAlerts(agreement, newAlerts, changedBy, reason, now))

\* suspend(changedBy, reason); the record keeps the dates isActiveOn held of
\* before the call
Suspend ==
    \E changedBy \in ActorIds, reason \in Reasons :
        AgreementReturned(
            [ok |-> FALSE, op |-> "suspend", reason |-> reason,
             changedBy |-> changedBy,
             activeOn |-> {date \in Dates : Agreement_isActiveOn(agreement, date)}],
            Agreement_suspend(agreement, changedBy, reason, now))

ResumeAgreement ==
    \E changedBy \in ActorIds, reason \in Reasons :
        AgreementReturned(
            [ok |-> FALSE, op |-> "resume", reason |-> reason,
             changedBy |-> changedBy],
            Agreement_resume(agreement, changedBy, reason, now))

Terminate ==
    \E changedBy \in ActorIds, reason \in TerminateReasons :
        AgreementReturned(
            [ok |-> FALSE, op |-> "terminate", reason |-> reason,
             changedBy |-> changedBy],
            Agreement_terminate(agreement, changedBy, reason, now))

GetHistoryInPeriod ==
    /\ held = Undefined
    /\ \E period \in Periods :
          agreementCall' = [ok |-> TRUE,
                            value |-> Agreement_getHistoryInPeriod(agreement,
                                                                   period[1], period[2]),
                            op |-> "getHistoryInPeriod"]
    /\ UNCHANGED <<agreement, succeeded, held, now, exceptAgreement>>

GetRecentHistory ==
    /\ held = Undefined
    /\ \E limit \in Limits :
          LET returned == Agreement_getRecentHistory(agreement, limit)
          IN  /\ agreement' = returned.agreement
              /\ agreementCall' = [ok |-> TRUE, value |-> returned.value,
                                   op |-> "getRecentHistory"]
    /\ UNCHANGED <<succeeded, held, now, exceptAgreement>>

NextAgreement ==
    \/ Tick
    \/ UpdateName
    \/ UpdateDescription
    \/ UpdateSplitRule
    \/ UpdateEffectivePeriod
    \/ UpdateAlerts
    \/ Suspend
    \/ ResumeAgreement
    \/ Terminate
    \/ GetHistoryInPeriod
    \/ GetRecentHistory

----------------------------------------------------------------------------
(* Accessors: what a caller can do with the array Agreement.history returns *)

\* get history(): [...this._history], a new array whose elements are the very
\* entry objects of _history; an element is held by reference, here its id
Agreement_history(a) == [i \in 1..Len(a.history) |-> a.history[i].id]

\* an object of the caller's own, which no history holds
CallerObject == 0

\* the text a caller writes into an entry it was given
CallerReasons == {"tampered"}

\* entry.reason = text on the entry object `ref`: every array that holds the
\* object shows the new field, _history included
AssignReason(a, ref, text) ==
    [a EXCEPT !.history =
        [i \in 1..Len(@) |-> IF @[i].id = ref THEN [@[i] EXCEPT !.reason = text]
                             ELSE @[i]]]

ReverseArray(array) == [i \in 1..Len(array) |-> array[Len(array) + 1 - i]]

\* a step of the caller on the array it holds or on one of its elements
CallerStep(op, heldAfter, agreementAfter) ==
    /\ held' = heldAfter
    /\ agreement' = agreementAfter
    /\ agreementCall' = [op |-> op]
    /\ UNCHANGED <<succeeded, now, exceptAgreement>>

\* const h = agreement.history
GetHistory ==
    /\ held = Undefined
    /\ CallerStep("history", Some(Agreement_history(agreement)), agreement)

\* h.push(entry)
PushReturned ==
    /\ held # Undefined
    /\ Len(held[1]) <= MaxAgreementHistory
    /\ CallerStep("h.push", Some(Append(held[1], CallerObject)), agreement)

\* h.pop()
PopReturned ==
    /\ held # Undefined
    /\ Len(held[1]) > 0
    /\ CallerStep("h.pop", Some(SubSeq(held[1], 1, Len(held[1]) - 1)), agreement)

\* h.reverse()
ReverseReturned ==
    /\ held # Undefined
    /\ CallerStep("h.reverse", Some(ReverseArray(held[1])), agreement)

\* h[i].reason = text
ModifyReturnedElement ==
    /\ held # Undefined
    /\ \E i \in 1..Len(held[1]), text \in CallerReasons :
          CallerStep("h[i].reason =", held, AssignReason(agreement, held[1][i], text))

\* the caller lets go of the array
ReleaseReturned ==
    /\ held # Undefined
    /\ CallerStep("release", Undefined, agreement)

NextCopies ==
    \/ Suspend
    \/ ResumeAgreement
    \/ GetHistory
    \/ PushReturned
    \/ PopReturned
    \/ ReverseReturned
    \/ ModifyReturnedElement
    \/ ReleaseReturned

----------------------------------------------------------------------------
(* Household: the agreements it holds *)

\* most Agreement objects created
MaxAgreements == 2

\* new Household(name): no partners and no agreements yet
NewHousehold == [partners |-> <<>>, agreements |-> <<>>]

\* the Agreement objects the household holds, in the order of _agreements
HeldAgreements(h, objects) == [i \in 1..Len(h.agreements) |-> objects[h.agreements[i]]]

\* addAgreement(agreement), `ref` being the object passed: Ok(the household
\* after the call), or the error it throws
Household_addAgreement(h, objects, ref, clock) ==
    IF \E i \in 1..Len(h.agreements) :
          /\ objects[h.agreements[i]].type = objects[ref].type
          /\ Agreement_isActive(objects[h.agreements[i]], clock)
    THEN Err("Active agreement of this type already exists")
    ELSE Ok([h EXCEPT !.agreements = Append(@, ref)])

\* findIndex(a => a.id === agreementId): the first index, 0 for none; an
\* agreement's id is the uuid it got when constructed, which names the object
FindAgreement(h, agreementId) ==
    IF \E i \in 1..Len(h.agreements) : h.agreements[i] = agreementId
    THEN CHOOSE i \in 1..Len(h.agreements) :
            /\ h.agreements[i] = agreementId
            /\ \A j \in 1..(i - 1) : h.agreements[j] # agreementId
    ELSE 0

\* removeAgreement(agreementId)
Household_removeAgreement(h, agreementId) ==
    LET index == FindAgreement(h, agreementId)
    IN  IF index = 0 THEN Err("Agreement not found")
        ELSE Ok([h EXCEPT !.agreements = Splice(@, index)])

\* getActiveAgreements(date)
Household_getActiveAgreements(h, objects, date) ==
    SelectSeq(HeldAgreements(h, objects), LAMBDA a : Agreement_isActiveOn(a, date))

----------------------------------------------------------------------------
(* The household specification: agreements are constructed, added to and
   removed from the household, and suspended, resumed, terminated and
   rescheduled through the references the callers keep; the clock runs *)

HouseholdPeriods == {<<0, Undefined>>}

\* new Agreement(householdId, type, name, splitRule, effectiveFrom)
CreateAgreement ==
    /\ Len(pool) < MaxAgreements
    /\ \E type \in AgreementType, effectiveFrom \in Times :
          pool' = Append(pool, NewAgreement(type, "rent", EqualExample, effectiveFrom, now))
    /\ UNCHANGED <<household, householdCall, now, exceptHousehold>>

\* a household call ends
HouseholdReturned(call, result) ==
    /\ household' = IF result.ok THEN result.value ELSE household
    /\ householdCall' = [call EXCEPT !.ok = result.ok]
    /\ UNCHANGED <<pool, now, exceptHousehold>>

AddAgreement ==
    \E ref \in 1..Len(pool) :
        /\ Len(household.agreements) < MaxAgreements
        /\ HouseholdReturned([ok |-> FALSE, op |-> "addAgreement"],
                             Household_addAgreement(household, pool, ref, now))

RemoveAgreement ==
    \E agreementId \in 1..Len(pool) :
        HouseholdReturned([ok |-> FALSE, op |-> "removeAgreement"],
                          Household_removeAgreement(household, agreementId))

\* a call on one of the Agreement objects returns: the object is as the call
\* left it (a call that throws changes nothing and is no step)
AgreementObjectReturned(ref, result) ==
    /\ result.ok
    /\ Len(pool[ref].history) < MaxAgreementHistory
    /\ pool' = [pool EXCEPT ![ref] = result.value]
    /\ UNCHANGED <<household, householdCall, now, exceptHousehold>>

SuspendHeld ==
    \E ref \in 1..Len(pool) :
        AgreementObjectReturned(ref, Agreement_suspend(pool[ref], "p1", Undefined, now))

ResumeHeld ==
    \E ref \in 1..Len(pool) :
        AgreementObjectReturned(ref, Agreement_resume(pool[ref], "p1", Undefined, now))

TerminateHeld ==
    \E ref \in 1..Len(pool) :
        AgreementObjectReturned(ref, Agreement_terminate(pool[ref], "p1", Undefined, now))

UpdateEffectivePeriodHeld ==
    \E ref \in 1..Len(pool), period \in HouseholdPeriods :
        AgreementObjectReturned(
            ref, Agreement_updateEffectivePeriod(pool[ref], period[1], period[2],
                                                 "p1", Undefined, now))

NextHousehold ==
    \/ Tick
    \/ CreateAgreement
    \/ AddAgreement
    \/ RemoveAgreement
    \/ SuspendHeld
    \/ ResumeHeld
    \/ TerminateHeld
    \/ UpdateEffectivePeriodHeld

----------------------------------------------------------------------------
(* BudgetEnvelope *)

\* largest magnitude, in cents, the enumerated spending reaches
MaxSpent == 3

\* new BudgetEnvelope(householdId, name, type, limit, period, ownerId): spent
\* starts at zero, rollover is disabled, alerts are enabled at 80% and 95%.
\* The period boundaries (_startDate, _endDate) are not modelled.
NewBudgetEnvelope(limit) ==
    [alerts |-> [enabled |-> TRUE, emailNotification |-> TRUE,
                 pushNotification |-> TRUE,
                 warnAtPercentage |-> 80, criticalAtPercentage |-> 95],
     limit |-> limit,
     spent |-> Money_zero(limit.currency),
     rolloverSettings |-> [percentage |-> Undefined, enabled |-> FALSE,
                           maxAmount |-> Undefined]]

\* getAvailable(): limit.subtract(spent)
BudgetEnvelope_getAvailable(e) == Money_subtract(e.limit, e.spent).value

\* getSpentPercentage(): 0 for a zero limit, else (spent.amount / limit.amount) * 100,
\* as a fraction
BudgetEnvelope_getSpentPercentage(e) ==
    IF Money_isZero(e.limit) THEN Ratio(0, 1)
    ELSE Ratio(e.spent.amountInCents * 100, e.limit.amountInCents)

\* percentage >= threshold and percentage < threshold, for a fraction and a number
AtLeast(percentage, threshold) == percentage.num >= threshold * percentage.den
Below(percentage, threshold)   == percentage.num < threshold * percentage.den

\* mutant: the warning band has no upper end
BudgetEnvelope_shouldWarn_noUpperEnd(e) ==
    IF ~e.alerts.enabled THEN FALSE
    ELSE AtLeast(BudgetEnvelope_getSpentPercentage(e), e.alerts.warnAtPercentage)

BudgetEnvelope_shouldWarn(e) ==
    IF ~e.alerts.enabled THEN FALSE
    ELSE /\ AtLeast(BudgetEnvelope_getSpentPercentage(e), e.alerts.warnAtPercentage)
         /\ Below(BudgetEnvelope_getSpentPercentage(e), e.alerts.criticalAtPercentage)

BudgetEnvelope_shouldAlertCritical(e) ==
    IF ~e.alerts.enabled THEN FALSE
    ELSE AtLeast(BudgetEnvelope_getSpentPercentage(e), e.alerts.criticalAtPercentage)

\* mutant: addSpending accepts a negative amount
BudgetEnvelope_addSpending_anySign(e, amount) ==
    IF amount.currency # e.limit.currency
    THEN Err("Spending amount currency must match envelope currency")
    ELSE Ok([e EXCEPT !.spent = Money_add(e.spent, amount).value])

BudgetEnvelope_addSpending(e, amount) ==
    IF amount.currency # e.limit.currency
    THEN Err("Spending amount currency must match envelope currency")
    ELSE IF Money_isNegative(amount)
         THEN Err("Spending amount cannot be negative")
    ELSE Ok([e EXCEPT !.spent = Money_add(e.spent, amount).value])

BudgetEnvelope_removeSpending(e, amount) ==
    IF amount.currency # e.limit.currency
    THEN Err("Spending amount currency must match envelope currency")
    ELSE IF Money_isNegative(amount)
         THEN Err("Spending amount cannot be negative")
    ELSE Ok([e EXCEPT !.spent = Money_subtract(e.spent, amount).value])

BudgetEnvelope_updateLimit(e, newLimit) ==
    IF newLimit.currency # e.limit.currency
    THEN Err("New limit currency must match envelope currency")
    ELSE Ok([e EXCEPT !.limit = newLimit])

\* updateRolloverSettings(newSettings): { ...this._rolloverSettings, ...newSettings }
BudgetEnvelope_updateRolloverSettings(e, newSettings) ==
    Ok([e EXCEPT !.rolloverSettings = Merge(@, newSettings)])

\* updateAlerts(newAlerts): { ...this._alerts, ...newAlerts }
BudgetEnvelope_updateEnvelopeAlerts(e, newAlerts) ==
    Ok([e EXCEPT !.alerts = Merge(@, newAlerts)])

\* if (x): an absent number and the number 0 are both falsy
Truthy(optionalNumber) == optionalNumber # Undefined /\ optionalNumber # Some(0)

\* calculateRolloverAmount(): Ok(the amount), or the error of a comparison
\* between currencies
BudgetEnvelope_calculateRolloverAmount(e) ==
    LET available == BudgetEnvelope_getAvailable(e)
        settings  == e.rolloverSettings
        capped ==
            IF settings.maxAmount # Undefined
            THEN IF Money_isLessThan(available, settings.maxAmount[1]).value
                 THEN available ELSE settings.maxAmount[1]
            ELSE available
        percentageAmount == Money_multiply(available, settings.percentage[1], 100)
    IN  IF ~settings.enabled THEN Ok(Money_zero(e.limit.currency))
        ELSE IF Money_isNegative(available) \/ Money_isZero(available)
             THEN Ok(Money_zero(e.limit.currency))
        ELSE IF settings.maxAmount # Undefined
                /\ settings.maxAmount[1].currency # available.currency
             THEN CurrencyError
        ELSE IF Truthy(settings.percentage)
             THEN Ok(IF Money_isLessThan(capped, percentageAmount).value
                     THEN capped ELSE percentageAmount)
        ELSE Ok(capped)

\* resetForNewPeriod(): the rollover is computed, then spent is zeroed;
\* [envelope, value] on return, the error when the computation threw
BudgetEnvelope_resetForNewPeriod(e) ==
    LET rolloverAmount == BudgetEnvelope_calculateRolloverAmount(e)
    IN  IF ~rolloverAmount.ok THEN rolloverAmount
        ELSE Ok([envelope |-> [e EXCEPT !.spent = Money_zero(e.limit.currency)],
                 value |-> rolloverAmount.value])

----------------------------------------------------------------------------
(* The envelope specification: an envelope is constructed, then any calls are
   made on it *)

EnvelopeLimits == {BRL(0 - 2), BRL(0), BRL(2), USD(2)}
SpendingAmounts == {BRL(0 - 1), BRL(0), BRL(1), USD(1)}
PartialEnvelopeAlerts ==
    {[enabled |-> FALSE],
     [enabled |-> TRUE, warnAtPercentage |-> 50, criticalAtPercentage |-> 100],
     [warnAtPercentage |-> 100, criticalAtPercentage |-> 50]}
PartialRolloverSettings ==
    {[enabled |-> TRUE],
     [enabled |-> FALSE],
     [maxAmount |-> Some(BRL(1))],
     [percentage |-> Some(50)],
     [percentage |-> Some(0)]}

\* an envelope call ends: the envelope is as the call left it, or untouched
\* when it threw
EnvelopeReturned(call, after, ok) ==
    /\ envelope' = IF ok THEN after ELSE envelope
    /\ envelopeCall' = [call EXCEPT !.ok = ok]
    /\ UNCHANGED exceptEnvelope

\* addSpending(amount); the record keeps what spent was before the call
AddSpending ==
    \E amount \in SpendingAmounts :
        LET result == BudgetEnvelope_addSpending(envelope, amount)
        IN  /\ result.ok => result.value.spent.amountInCents <= MaxSpent
            /\ EnvelopeReturned([ok |-> FALSE, op |-> "addSpending",
                                 amount |-> amount, before |-> envelope.spent],
                                IF result.ok THEN result.value ELSE envelope, result.ok)

\* removeSpending(amount); when it undoes the addSpending(amount) that returned
\* just before it, the record keeps what spent was before that addSpending
RemoveSpending ==
    \E amount \in SpendingAmounts :
        LET result == BudgetEnvelope_removeSpending(envelope, amount)
            undoes == /\ envelopeCall.op = "addSpending"
                      /\ envelopeCall.ok
                      /\ envelopeCall.amount = amount
        IN  /\ result.ok => result.value.spent.amountInCents >= 0 - MaxSpent
            /\ EnvelopeReturned([ok |-> FALSE, op |-> "removeSpending", amount |-> amount,
                                 undone |-> IF undoes THEN Some(envelopeCall.before)
                                            ELSE Undefined],
                                IF result.ok THEN result.value ELSE envelope, result.ok)

UpdateLimit ==
    \E newLimit \in EnvelopeLimits :
        LET result == BudgetEnvelope_updateLimit(envelope, newLimit)
        IN  EnvelopeReturned([ok |-> FALSE, op |-> "updateLimit"],
                             IF result.ok THEN result.value ELSE envelope, result.ok)

UpdateRolloverSettings ==
    \E newSettings \in PartialRolloverSettings :
        EnvelopeReturned([ok |-> FALSE, op |-> "updateRolloverSettings"],
                         BudgetEnvelope_updateRolloverSettings(envelope, newSettings).value,
                         TRUE)

UpdateEnvelopeAlerts ==
    \E newAlerts \in PartialEnvelopeAlerts :
        EnvelopeReturned([ok |-> FALSE, op |-> "updateAlerts"],
                         BudgetEnvelope_updateEnvelopeAlerts(envelope, newAlerts).value,
                         TRUE)

\* resetForNewPeriod(); the record keeps the Money returned
ResetForNewPeriod ==
    LET result == BudgetEnvelope_resetForNewPeriod(envelope)
    IN  EnvelopeReturned([ok |-> FALSE,
                          value |-> IF result.ok THEN Some(result.value.value)
                                    ELSE Undefined,
                          op |-> "resetForNewPeriod"],
                         IF result.ok THEN result.value.envelope ELSE envelope, result.ok)

NextEnvelope ==
    \/ AddSpending
    \/ RemoveSpending
    \/ UpdateLimit
    \/ UpdateRolloverSettings
    \/ UpdateEnvelopeAlerts
    \/ ResetForNewPeriod

----------------------------------------------------------------------------
(* Transaction *)

PENDING   == "pending"
CONFIRMED == "confirmed"
DISPUTED  == "disputed"
TransactionStatus == {PENDING, CONFIRMED, CANCELLED, DISPUTED}

\* new Transaction(accountId, amount, type, description): PENDING, no split
NewTransaction(amount) ==
    [amount |-> amount, status |-> PENDING, splitDetails |-> <<>>]

\* updateAmount(newAmount)
Transaction_updateAmount(t, newAmount) ==
    IF t.status = CONFIRMED THEN Err("Cannot update amount of confirmed transaction")
    ELSE Ok([t EXCEPT !.amount = newAmount])

\* updateStatus(newStatus), and confirm(), cancel(), dispute()
Transaction_updateStatus(t, newStatus) == Ok([t EXCEPT !.status = newStatus])
Transaction_confirm(t) == Ok([t EXCEPT !.status = CONFIRMED])
Transaction_cancel(t)  == Ok([t EXCEPT !.status = CANCELLED])
Transaction_dispute(t) == Ok([t EXCEPT !.status = DISPUTED])

TransactionSplit(partnerId, amount, percentage, isPaid, paidAt) ==
    [partnerId |-> partnerId, amount |-> amount, percentage |-> percentage,
     isPaid |-> isPaid, paidAt |-> paidAt]

\* applySplit(splitRule, partnerIncomes): split throws before anything is assigned
Transaction_applySplit(t, config, partnerIncomes) ==
    LET splitResults == SplitRule_split(config, t.amount, partnerIncomes)
    IN  IF ~splitResults.ok THEN splitResults
        ELSE Ok([t EXCEPT !.splitDetails =
                    [i \in 1..Len(splitResults.value) |->
                        TransactionSplit(splitResults.value[i].partnerId,
                                         splitResults.value[i].amount,
                                         splitResults.value[i].percentage,
                                         FALSE, Undefined)]])

\* splitDetails.reduce((sum, detail) => sum.add(detail.amount), acc) from entry i on
RECURSIVE TotalSplit(_, _, _)
TotalSplit(splitDetails, i, acc) ==
    IF i > Len(splitDetails) THEN Ok(acc)
    ELSE LET sum == Money_add(acc, splitDetails[i].amount)
         IN  IF ~sum.ok THEN sum ELSE TotalSplit(splitDetails, i + 1, sum.value)

\* updateSplitDetails(splitDetails) without the comparison of the sum with the amount
Transaction_updateSplitDetails_anySum(t, splitDetails) ==
    LET totalSplit == TotalSplit(splitDetails, 1, Money_zero(t.amount.currency))
    IN  IF ~totalSplit.ok THEN totalSplit
        ELSE Ok([t EXCEPT !.splitDetails = splitDetails])

\* updateSplitDetails(splitDetails)
Transaction_updateSplitDetails(t, splitDetails) ==
    LET totalSplit == TotalSplit(splitDetails, 1, Money_zero(t.amount.currency))
    IN  IF ~totalSplit.ok THEN totalSplit
        ELSE IF ~Money_equals(totalSplit.value, t.amount)
             THEN Err("Split details sum must equal transaction amount")
        ELSE Ok([t EXCEPT !.splitDetails = splitDetails])

\* _splitDetails.find(detail => detail.partnerId === partnerId): the first index, 0 for none
FindSplit(splitDetails, partnerId) ==
    IF \E i \in 1..Len(splitDetails) : splitDetails[i].partnerId = partnerId
    THEN CHOOSE i \in 1..Len(splitDetails) :
            /\ splitDetails[i].partnerId = partnerId
            /\ \A j \in 1..(i - 1) : splitDetails[j].partnerId # partnerId
    ELSE 0

\* markSplitAsPaid(partnerId, paidAt)
Transaction_markSplitAsPaid(t, partnerId, paidAt) ==
    LET index == FindSplit(t.splitDetails, partnerId)
    IN  IF index = 0 THEN Err("Split detail not found for partner")
        ELSE Ok([t EXCEPT !.splitDetails[index].isPaid = TRUE,
                          !.splitDetails[index].paidAt = Some(paidAt)])

\* markSplitAsUnpaid(partnerId)
Transaction_markSplitAsUnpaid(t, partnerId) ==
    LET index == FindSplit(t.splitDetails, partnerId)
    IN  IF index = 0 THEN Err("Split detail not found for partner")
        ELSE Ok([t EXCEPT !.splitDetails[index].isPaid = FALSE,
                          !.splitDetails[index].paidAt = Undefined])

----------------------------------------------------------------------------
(* The transaction specification: any calls on one transaction *)

TransactionAmounts == {BRL(0), BRL(1), BRL(2), USD(2)}

CustomOneOne ==
    SplitConfig(CUSTOM,
                <<SplitPartner(1, Undefined, Some(BRL(1))),
                  SplitPartner(2, Undefined, Some(BRL(1)))>>, Some(1))

\* already constructed rules: equal among three, proportional and custom among two
TransactionRules == {EqualExample, ProportionalExample, CustomOneOne}

TransactionIncomes == {Undefined, Some(ExampleIncomes)}

\* split details a caller writes by hand
ManualSplit(partnerId, amount) ==
    TransactionSplit(partnerId, amount, Ratio(50, 1), FALSE, Undefined)

ManualSplitDetails ==
    {<<>>,
     <<ManualSplit(1, BRL(2))>>,
     <<ManualSplit(1, BRL(1)), ManualSplit(2, BRL(1))>>,
     <<ManualSplit(1, BRL(1)), ManualSplit(2, USD(1))>>}

SplitPartnerIds == {1, 3}

\* a transaction call ends: the transaction is as the call left it, untouched
\* when it threw before assigning
TransactionReturned(op, result) ==
    /\ transaction' = IF result.ok THEN result.value
                      ELSE IF "left" \in DOMAIN result THEN result.left
                      ELSE transaction
    /\ transactionCall' = [ok |-> result.ok, op |-> op]
    /\ UNCHANGED <<now, exceptTransaction>>

UpdateAmount ==
    \E newAmount \in TransactionAmounts :
        TransactionReturned("updateAmount", Transaction_updateAmount(transaction, newAmount))

\* updateStatus(newStatus), confirm(), cancel() or dispute()
ChangeStatus ==
    \/ \E newStatus \in TransactionStatus :
          TransactionReturned("updateStatus",
                              Transaction_updateStatus(transaction, newStatus))
    \/ TransactionReturned("confirm", Transaction_confirm(transaction))
    \/ TransactionReturned("cancel", Transaction_cancel(transaction))
    \/ TransactionReturned("dispute", Transaction_dispute(transaction))

ApplySplit ==
    \E config \in TransactionRules, partnerIncomes \in TransactionIncomes :
        TransactionReturned("applySplit",
                            Transaction_applySplit(transaction, config, partnerIncomes))

\* updateSplitDetails(splitDetails): the call record keeps the list that was passed
UpdateSplitDetails ==
    \E splitDetails \in ManualSplitDetails :
        LET result == Transaction_updateSplitDetails(transaction, splitDetails)
        IN  /\ transaction' = IF result.ok THEN result.value ELSE transaction
            /\ transactionCall' = [ok |-> result.ok, op |-> "updateSplitDetails",
                                   splitDetails |-> splitDetails]
            /\ UNCHANGED <<now, exceptTransaction>>

MarkSplitAsPaid ==
    \E partnerId \in SplitPartnerIds :
        TransactionReturned("markSplitAsPaid",
                            Transaction_markSplitAsPaid(transaction, partnerId, now))

MarkSplitAsUnpaid ==
    \E partnerId \in SplitPartnerIds :
        TransactionReturned("markSplitAsUnpaid",
                            Transaction_markSplitAsUnpaid(transaction, partnerId))

NextTransaction ==
    \/ UpdateAmount
    \/ ChangeStatus
    \/ ApplySplit
    \/ UpdateSplitDetails
    \/ MarkSplitAsPaid
    \/ MarkSplitAsUnpaid

----------------------------------------------------------------------------
(* Account *)

AccountIds == {"a", "b"}

\* new Account(name, type, currency): the balance is Money.zero(currency)
NewAccount(currency) == [currency |-> currency, balance |-> Money_zero(currency)]

\* addToBalance(amount) on the account `id`: Ok(the accounts after the call), or the error
Account_addToBalance(heap, id, amount) ==
    IF amount.currency # heap[id].currency
    THEN Err("Amount currency must match account currency")
    ELSE LET sum == Money_add(heap[id].balance, amount)
         IN  IF ~sum.ok THEN sum ELSE Ok([heap EXCEPT ![id].balance = sum.value])

\* subtractFromBalance(amount) on the account `id`
Account_subtractFromBalance(heap, id, amount) ==
    IF amount.currency # heap[id].currency
    THEN Err("Amount currency must match account currency")
    ELSE LET difference == Money_subtract(heap[id].balance, amount)
         IN  IF ~difference.ok THEN difference
             ELSE Ok([heap EXCEPT ![id].balance = difference.value])

\* mutant: the balance is not compared with the amount
Account_transferTo_anyBalance(heap, source, target, amount) ==
    IF amount.currency # heap[source].currency
    THEN Err("Amount currency must match account currency")
    ELSE IF Money_isNegative(amount) \/ Money_isZero(amount)
         THEN Err("Transfer amount must be positive")
    ELSE IF heap[target].currency # heap[source].currency
         THEN Err("Currency conversion not implemented")
    ELSE Account_addToBalance(Account_subtractFromBalance(heap, source, amount).value,
                              target, amount)

\* source.transferTo(target, amount): the source is debited, then the target is
\* credited; a throw of the second call would leave the debit behind
Account_transferTo(heap, source, target, amount) ==
    IF amount.currency # heap[source].currency
    THEN Err("Amount currency must match account currency")
    ELSE IF Money_isNegative(amount) \/ Money_isZero(amount)
         THEN Err("Transfer amount must be positive")
    ELSE IF ~Money_isLessThan(heap[source].balance, amount).ok
         THEN Money_isLessThan(heap[source].balance, amount)
    ELSE IF Money_isLessThan(heap[source].balance, amount).value
         THEN Err("Insufficient balance for transfer")
    ELSE IF heap[target].currency # heap[source].currency
         THEN Err("Currency conversion not implemented")
    ELSE LET debited == Account_subtractFromBalance(heap, source, amount)
         IN  IF ~debited.ok THEN debited
             ELSE LET credited == Account_addToBalance(debited.value, target, amount)
                  IN  IF ~credited.ok THEN Thrown(credited.error, debited.value)
                      ELSE credited

----------------------------------------------------------------------------
(* Failing calls: mutators of several entities, called with arguments that  *)
(* make them throw as well as with arguments they accept                    *)

\* largest balance an account is given
MaxBalance == 1

AccountMoney == {BRL(0 - 1), BRL(0), BRL(1), USD(1)}

AnyEffectivePeriods == EffectivePeriods \cup {<<InvalidDate, Undefined>>}

\* an account call ends: the accounts are as the call left them; the record keeps
\* the arguments of a call that returned
AccountReturned(call, result) ==
    /\ accounts' = IF result.ok THEN result.value
                   ELSE IF "left" \in DOMAIN result THEN result.left
                   ELSE accounts
    /\ accountCall' = IF result.ok THEN call ELSE [ok |-> FALSE, op |-> call.op]
    /\ UNCHANGED <<now, exceptAccount>>

AddToBalance ==
    \E id \in AccountIds, amount \in AccountMoney :
        /\ Abs(accounts[id].balance.amountInCents + amount.amountInCents) <= MaxBalance
        /\ AccountReturned([ok |-> TRUE, op |-> "addToBalance"],
                           Account_addToBalance(accounts, id, amount))

TransferTo ==
    \E source \in AccountIds, target \in AccountIds, amount \in AccountMoney :
        /\ source # target =>
              accounts[target].balance.amountInCents + amount.amountInCents <= MaxBalance
        /\ AccountReturned([ok |-> TRUE, op |-> "transferTo", amount |-> amount,
                            source |-> source, target |-> target],
                           Account_transferTo(accounts, source, target, amount))

UpdateEffectivePeriodAnyDate ==
    \E period \in AnyEffectivePeriods, changedBy \in ActorIds :
        AgreementReturned(
            [ok |-> FALSE, op |-> "updateEffectivePeriod", reason |-> Undefined,
             changedBy |-> changedBy],
            Agreement_updateEffectivePeriod(agreement, period[1], period[2],
                                            changedBy, Undefined, now))

NextFailing ==
    \/ AddToBalance
    \/ TransferTo
    \/ ApplySplit
    \/ UpdateEffectivePeriodAnyDate

----------------------------------------------------------------------------
(* SplitRule and the objects its caller still holds

   A config object holds a reference to an array and a reference to a Date
   object; an array holds references to partner objects.  `{ ...config }`
   copies the references, `[...array]` copies the array's slots, and
   `new Date(date)` copies the time value. *)

\* new SplitRule(config): this._config = { ...config }
SplitRule_constructor(heap) == [heap EXCEPT !.ruleConfig = heap.callerConfig]

\* the caller builds a config object from fresh objects and constructs a rule from it
NewHeap(config) ==
    SplitRule_constructor(
        [dates   |-> [from |-> config.effectiveFrom[1]],
         objects |-> config.partners
                     \o <<SplitPartner(Len(config.partners) + 1, Undefined, Some(BRL(1)))>>,
         ruleConfig   |-> Undefined,
         callerConfig |-> [partners |-> "passed", type |-> config.type, effectiveFrom |-> "from"],
         arrays  |-> [returned |-> <<>>, passed |-> [i \in 1..Len(config.partners) |-> i]],
         got     |-> FALSE])

\* what the rule's _config denotes: the values its references lead to
SplitRule_config(heap) ==
    LET array == heap.arrays[heap.ruleConfig.partners]
    IN  SplitConfig(heap.ruleConfig.type,
                    [i \in 1..Len(array) |-> heap.objects[array[i]]],
                    Some(heap.dates[heap.ruleConfig.effectiveFrom]))

\* get partners(): [...this._config.partners], handed to the caller
SplitRule_partners(heap) ==
    [heap EXCEPT !.arrays.returned = heap.arrays[heap.ruleConfig.partners], !.got = TRUE]

\* the arrays the caller holds: the one it passed, and the one a getter returned
CallerArrays(heap) == {"passed"} \cup (IF heap.got THEN {"returned"} ELSE {})

AliasConfigs == {CustomOneOne, SplitConfig(EQUAL, ProportionalExample.partners, Some(1))}
AliasAmounts == {BRL(2), BRL(3)}

CallerDid(op, heap) ==
    /\ aliasHeap' = heap
    /\ aliasCall' = [op |-> op]
    /\ UNCHANGED exceptAlias

\* config.type = type
AssignType ==
    \E type \in {EQUAL, CUSTOM} \ {aliasHeap.callerConfig.type} :
        CallerDid("config.type =", [aliasHeap EXCEPT !.callerConfig.type = type])

\* config.effectiveFrom.setTime(time)
SetTime ==
    \E time \in {1, 2} \ {aliasHeap.dates.from} :
        CallerDid("setTime", [aliasHeap EXCEPT !.dates.from = time])

\* array.push(partner), on an array the caller holds
PushPartner ==
    \E array \in CallerArrays(aliasHeap) :
        /\ Len(aliasHeap.arrays[array]) < MaxPartners
        /\ CallerDid("push",
                     [aliasHeap EXCEPT !.arrays[array] = Append(@, Len(aliasHeap.objects))])

\* array.pop(), on an array the caller holds
PopPartner ==
    \E array \in CallerArrays(aliasHeap) :
        /\ aliasHeap.arrays[array] # <<>>
        /\ CallerDid("pop", [aliasHeap EXCEPT !.arrays[array] = SubSeq(@, 1, Len(@) - 1)])

\* array[0].customAmount = amount, on an array the caller holds
AssignCustomAmount ==
    \E array \in CallerArrays(aliasHeap) :
        /\ aliasHeap.arrays[array] # <<>>
        /\ CallerDid("customAmount =",
                     [aliasHeap EXCEPT !.objects[aliasHeap.arrays[array][1]].customAmount
                                            = Some(BRL(2))])

\* rule.partners
GetPartners ==
    /\ ~aliasHeap.got
    /\ CallerDid("partners", SplitRule_partners(aliasHeap))

\* rule.split(amount)
SplitAgain ==
    \E amount \in AliasAmounts :
        /\ aliasHeap' = aliasHeap
        /\ aliasCall' = [op |-> "split",
                         result |-> SplitRule_split(SplitRule_config(aliasHeap), amount, Undefined),
                         amount |-> amount]
        /\ UNCHANGED exceptAlias

NextAlias ==
    \/ AssignType
    \/ SetTime
    \/ PushPartner
    \/ PopPartner
    \/ AssignCustomAmount
    \/ GetPartners
    \/ SplitAgain

----------------------------------------------------------------------------
(* Entity constructors and their names

   Of each entity, the name alone: what the constructor stores for the name it
   is given, and what updateName stores or throws. *)

\* Goal: constructor(householdId, name, ...) and updateName(newName)
Goal_constructor(name) == Ok([name |-> name])
Goal_updateName(g, newName) ==
    IF newName = "" \/ Trim(newName) = ""
    THEN Err("Goal name cannot be empty")
    ELSE Ok([g EXCEPT !.name = Trim(newName)])

\* Agreement: constructor(householdId, type, name, ...)
Agreement_constructor(name) == Ok([name |-> NewAgreement(FIXED_EXPENSES, name, EqualExample, 0, 0).name])

\* BudgetEnvelope: constructor(householdId, name, ...) and updateName(newName)
BudgetEnvelope_constructor(name) == Ok([name |-> name])
BudgetEnvelope_updateName(e, newName) ==
    IF newName = "" \/ Trim(newName) = ""
    THEN Err("Envelope name cannot be empty")
    ELSE Ok([e EXCEPT !.name = Trim(newName)])

\* Household: constructor(name, settings) and updateName(newName)
Household_constructor(name) == Ok([name |-> name])
Household_updateName(h, newName) ==
    IF newName = "" \/ Trim(newName) = ""
    THEN Err("Household name cannot be empty")
    ELSE Ok([h EXCEPT !.name = Trim(newName)])

EntityNames == {"", "  ", " rent ", "rent", "food", "trip", "gym"}

\* new Entity(name): the object exists when the constructor returned
ConstructorReturned(entity, name, result) ==
    /\ constructed' = [ok |-> result.ok, op |-> "constructor", name |-> name, entity |-> entity,
                       object |-> IF result.ok THEN Some(result.value) ELSE Undefined]
    /\ UNCHANGED exceptConstructed

\* object.updateName(newName): the object is left alone when the call threw
UpdateNameReturned(entity, newName, result) ==
    /\ constructed.entity = entity
    /\ constructed' = [ok |-> result.ok, op |-> "updateName", name |-> newName, entity |-> entity,
                       object |-> IF result.ok THEN Some(result.value) ELSE constructed.object]
    /\ UNCHANGED exceptConstructed

ConstructGoal == \E name \in EntityNames : ConstructorReturned("Goal", name, Goal_constructor(name))
ConstructAgreement ==
    \E name \in EntityNames : ConstructorReturned("Agreement", name, Agreement_constructor(name))
ConstructBudgetEnvelope ==
    \E name \in EntityNames :
        ConstructorReturned("BudgetEnvelope", name, BudgetEnvelope_constructor(name))
ConstructHousehold ==
    \E name \in EntityNames : ConstructorReturned("Household", name, Household_constructor(name))

\* updateName on the object the last constructor call returned
RenameGoal ==
    /\ constructed.object # Undefined
    /\ \E newName \in EntityNames :
          UpdateNameReturned("Goal", newName, Goal_updateName(constructed.object[1], newName))
RenameAgreement ==
    /\ constructed.object # Undefined
    /\ \E newName \in EntityNames :
          LET a == NewAgreement(FIXED_EXPENSES, constructed.object[1].name, EqualExample, 0, 0)
              result == Agreement_updateName(a, newName, "p1", Undefined, 0)
          IN  UpdateNameReturned("Agreement", newName,
                                 IF result.ok THEN Ok([name |-> result.value.name]) ELSE result)
RenameBudgetEnvelope ==
    /\ constructed.object # Undefined
    /\ \E newName \in EntityNames :
          UpdateNameReturned("BudgetEnvelope", newName,
                             BudgetEnvelope_updateName(constructed.object[1], newName))
RenameHousehold ==
    /\ constructed.object # Undefined
    /\ \E newName \in EntityNames :
          UpdateNameReturned("Household", newName,
                             Household_updateName(constructed.object[1], newName))

NextConstructed ==
    \/ ConstructGoal
    \/ ConstructAgreement
    \/ ConstructBudgetEnvelope
    \/ ConstructHousehold
    \/ RenameGoal
    \/ RenameAgreement
    \/ RenameBudgetEnvelope
    \/ RenameHousehold

----------------------------------------------------------------------------
(* Money on doubles

   amount, factor and divisor are JavaScript numbers, IEEE 754 doubles: `/` and
   `*` give the exact result rounded to 53 significant bits, ties to even.  A
   positive double is [bits, exp]: bits is its significand, most significant
   bit first (bits[1] = 1), and its value is the sum of bits[i] * 2^(exp + 1 - i).
   Math.round is exact: the integer nearest to its argument, ties upwards. *)

\* width of a double's significand
SignificandBits == 53

RECURSIVE Pow2(_)
Pow2(k) == IF k = 0 THEN 1 ELSE 2 * Pow2(k - 1)

\* the e with 2^e <= n/d < 2^(e+1), for integers n, d > 0
RECURSIVE ExponentOf(_, _)
ExponentOf(n, d) ==
    IF n >= 2 * d THEN ExponentOf(n, 2 * d) + 1
    ELSE IF n < d THEN ExponentOf(2 * n, d) - 1
    ELSE 0

\* long division: `bits` followed by the next bits of r/d (r < d), up to `count`
\* bits in all, and the remainder left
RECURSIVE QuotientBits(_, _, _, _)
QuotientBits(r, d, count, bits) ==
    IF Len(bits) = count THEN [bits |-> bits, rem |-> r]
    ELSE IF 2 * r >= d THEN QuotientBits(2 * r - d, d, count, Append(bits, 1))
    ELSE QuotientBits(2 * r, d, count, Append(bits, 0))

\* bits + 1 in the last place; one bit longer when the carry runs out of the top
RECURSIVE AddOne(_)
AddOne(bits) ==
    IF bits = <<>> THEN <<1>>
    ELSE IF bits[Len(bits)] = 0 THEN [bits EXCEPT ![Len(bits)] = 1]
    ELSE AddOne(SubSeq(bits, 1, Len(bits) - 1)) \o <<0>>

\* round to nearest, ties to even: `bits` (at least 53, bits[1] = 1) of a value
\* whose leading bit weighs 2^exp, `inexact` when nonzero bits follow them
Double_round(bits, exp, inexact) ==
    LET kept    == SubSeq(bits, 1, SignificandBits)
        dropped == SubSeq(bits, SignificandBits + 1, Len(bits))
        half    == dropped # <<>> /\ dropped[1] = 1
        below   == inexact \/ \E i \in 2..Len(dropped) : dropped[i] = 1
        up      == half /\ (below \/ kept[SignificandBits] = 1)
        sum     == IF up THEN AddOne(kept) ELSE kept
    IN  IF Len(sum) > SignificandBits
        THEN [bits |-> SubSeq(sum, 1, SignificandBits), exp |-> exp + 1]
        ELSE [bits |-> sum, exp |-> exp]

\* n / d on doubles, for integers n, d > 0 that are doubles themselves
Double_divide(n, d) ==
    LET exp == ExponentOf(n, d)
        num == IF exp < 0 THEN n * Pow2(0 - exp) ELSE n
        den == IF exp > 0 THEN d * Pow2(exp) ELSE d
        q   == QuotientBits(num - den, den, SignificandBits + 1, <<1>>)
    IN  Double_round(q.bits, exp, q.rem # 0)

\* the binary digits of an integer n >= 0, most significant first
RECURSIVE Binary(_)
Binary(n) == IF n = 0 THEN <<>> ELSE Binary(n \div 2) \o <<n % 2>>

\* the digits of bits * k + carry followed by `low`, for an integer k > 0
RECURSIVE TimesBits(_, _, _, _)
TimesBits(bits, k, carry, low) ==
    IF bits = <<>> THEN Binary(carry) \o low
    ELSE IF (bits[Len(bits)] * k + carry) % 2 = 0
    THEN TimesBits(SubSeq(bits, 1, Len(bits) - 1), k, (bits[Len(bits)] * k + carry) \div 2, <<0>> \o low)
    ELSE TimesBits(SubSeq(bits, 1, Len(bits) - 1), k, (bits[Len(bits)] * k + carry) \div 2, <<1>> \o low)

\* x * k on doubles, for an integer k > 0
Double_times(x, k) ==
    LET product == TimesBits(x.bits, k, 0, <<>>)
    IN  Double_round(product, x.exp + Len(product) - SignificandBits, FALSE)

RECURSIVE ToInteger(_)
ToInteger(bits) ==
    IF bits = <<>> THEN 0 ELSE 2 * ToInteger(SubSeq(bits, 1, Len(bits) - 1)) + bits[Len(bits)]

\* Math.round(x) for a positive double below 2^31: floor(x + 0.5)
Math_round(x) ==
    IF x.exp < 0 - 1 THEN 0
    ELSE IF x.exp = 0 - 1 THEN 1
    ELSE ToInteger(SubSeq(x.bits, 1, x.exp + 1)) + x.bits[x.exp + 2]

\* the double nearest to n/d (a decimal literal, or a quotient), for n >= 0, d > 0
DoubleZero == [bits |-> <<>>, exp |-> 0]
Double_of(n, d) == IF n = 0 THEN DoubleZero ELSE Double_divide(n, d)

\* constructor(amount): Math.round(amount * 100), the cents it stores
Money_constructor(amount) ==
    IF amount = DoubleZero THEN 0 ELSE Math_round(Double_times(amount, 100))

\* fromCents(amountInCents).divide(divisor): new Money(cents / (divisor * 100))
Money_divide_onDoubles(cents, divisor) == Money_constructor(Double_of(cents, divisor * 100))

\* fromCents(amountInCents).multiply(factor): new Money((cents * factor) / 100),
\* for a factor fnum/fden whose product with cents is a double (fden a power of 2)
Money_multiply_onDoubles(cents, fnum, fden) == Money_constructor(Double_of(cents * fnum, fden * 100))

\* largest amount in cents, largest divisor, and largest decimal in thousandths
MaxRoundedCents == 30
MaxDivisor == 3
MaxThousandths == 40

RoundedCents == 0..MaxRoundedCents \cup {10000}
Divisors == 1..MaxDivisor
Factors == {<<1, 2>>, <<3, 2>>, <<2, 1>>}
\* decimal amounts with three decimals, in thousandths: up to 0.04, 1.005, 100.555
Thousandths == 0..MaxThousandths \cup {1005, 100555}

RoundingReturned(op, exact, cents) ==
    /\ rounded.op = "none"
    /\ rounded' = [op |-> op, cents |-> cents, exact |-> exact]
    /\ UNCHANGED exceptRounded

\* Money.fromCents(cents).divide(divisor)
DivideOnDoubles ==
    \E divisor \in Divisors :
        RoundingReturned("divide", <<rounded.cents, divisor>>,
                         Money_divide_onDoubles(rounded.cents, divisor))

\* Money.fromCents(cents).multiply(factor)
MultiplyOnDoubles ==
    \E factor \in Factors :
        RoundingReturned("multiply", <<rounded.cents * factor[1], factor[2]>>,
                         Money_multiply_onDoubles(rounded.cents, factor[1], factor[2]))

\* new Money(amount), amount written with three decimals
ConstructFromDecimal ==
    \E thousandths \in Thousandths :
        RoundingReturned("constructor", <<thousandths, 10>>,
                         Money_constructor(Double_of(thousandths, 1000)))

NextRounded ==
    \/ DivideOnDoubles
    \/ MultiplyOnDoubles
    \/ ConstructFromDecimal

----------------------------------------------------------------------------
(* CreateHousehold and the HouseholdRepository

   execute(dto) runs up to its first await, then resumes when findByName
   resolves, and finishes when save resolves; other execute calls run in
   between.  The repository behind the port is a store of the households
   saved, read by findByName and written by save. *)

\* how many execute calls are made
MaxExecutions == 2
Executions == 1..MaxExecutions

\* a name of 101 characters
LongName == "household household household household household household household household household household h"

\* validateInput(dto)
CreateHousehold_validateInput(dto) ==
    IF dto.name = "" \/ Len(Trim(dto.name)) = 0
    THEN Err("Household name is required")
    ELSE IF Len(dto.name) > 100
    THEN Err("Household name must be less than 100 characters")
    ELSE IF dto.currency # Undefined /\ dto.currency[1] # "" /\ Len(dto.currency[1]) # 3
    THEN Err("Currency must be a 3-letter code (ISO 4217)")
    ELSE Ok(dto)

\* HouseholdRepository.findByName(name): a saved household of that name, or null
HouseholdRepository_findByName(saved, name) ==
    IF \E i \in 1..Len(saved) : saved[i].name = name
    THEN Some(saved[CHOOSE i \in 1..Len(saved) : saved[i].name = name])
    ELSE Undefined

\* HouseholdRepository.save(household): the household is stored under its id
HouseholdRepository_save(saved, entity) ==
    IF \E i \in 1..Len(saved) : saved[i].id = entity.id
    THEN [i \in 1..Len(saved) |-> IF saved[i].id = entity.id THEN entity ELSE saved[i]]
    ELSE Append(saved, entity)

\* new Household(dto.name, {currency: dto.currency || 'BRL', ...}), its id being `id`
CreateHousehold_newHousehold(dto, id) ==
    [currency |-> IF dto.currency = Undefined \/ dto.currency[1] = "" THEN "BRL"
                  ELSE dto.currency[1],
     id |-> id, name |-> dto.name]

HouseholdDtos ==
    {[currency |-> Undefined, name |-> name] : name \in {"", "  ", "home", "flat", LongName}}
    \cup {[currency |-> Some("BR"), name |-> "home"], [currency |-> Some("USD"), name |-> "home"]}

\* execute(dto), up to `await this.householdRepository.findByName(dto.name)`
Execute(p) ==
    /\ executions[p].pc = "idle"
    /\ \E dto \in HouseholdDtos :
          executions' = [executions EXCEPT ![p] =
              IF CreateHousehold_validateInput(dto).ok
              THEN [dto |-> dto, pc |-> "findByName"]
              ELSE [error |-> CreateHousehold_validateInput(dto).error,
                    dto |-> dto, pc |-> "failed"]]
    /\ UNCHANGED <<repository, exceptRepository>>

\* findByName resolves: throw if a household was found, else construct one and
\* go on to `await this.householdRepository.save(household)`
FindByNameResolves(p) ==
    /\ executions[p].pc = "findByName"
    /\ executions' = [executions EXCEPT ![p] =
          IF HouseholdRepository_findByName(repository, executions[p].dto.name) # Undefined
          THEN [error |-> "A household with this name already exists",
                dto |-> executions[p].dto, pc |-> "failed"]
          ELSE [household |-> CreateHousehold_newHousehold(executions[p].dto, p),
                dto |-> executions[p].dto, pc |-> "save"]]
    /\ UNCHANGED <<repository, exceptRepository>>

\* save resolves: the household is stored and execute returns it
SaveResolves(p) ==
    /\ executions[p].pc = "save"
    /\ repository' = HouseholdRepository_save(repository, executions[p].household)
    /\ executions' = [executions EXCEPT ![p] = [@ EXCEPT !.pc = "done"]]
    /\ UNCHANGED exceptRepository

NextRepository ==
    \E p \in Executions :
        \/ Execute(p)
        \/ FindByNameResolves(p)
        \/ SaveResolves(p)

----------------------------------------------------------------------------
(* Goal: the queries on the contribution history *)

\* getContributionsInPeriod(startDate, endDate): filter builds a new array
Goal_getContributionsInPeriod(g, startDate, endDate) ==
    [goal |-> g,
     value |-> SelectSeq(g.contributionHistory,
                         LAMBDA contribution : contribution.date >= startDate
                                               /\ contribution.date <= endDate)]

\* one step of the stable sort: `entry` goes behind the entries that are not older
InsertByDateDesc(sorted, entry) ==
    LET k == Cardinality({i \in 1..Len(sorted) : sorted[i].date >= entry.date})
    IN  SubSeq(sorted, 1, k) \o <<entry>> \o SubSeq(sorted, k + 1, Len(sorted))

\* Array.prototype.sort((a, b) => b.date - a.date): newest first, and entries of
\* one date in the order they had
RECURSIVE SortByDateDesc(_)
SortByDateDesc(entries) ==
    IF entries = <<>> THEN <<>>
    ELSE InsertByDateDesc(SortByDateDesc(SubSeq(entries, 1, Len(entries) - 1)),
                          entries[Len(entries)])

\* getRecentContributions(limit): _contributionHistory.sort(...) sorts the stored
\* array itself, slice copies its first `limit` entries
Goal_getRecentContributions(g, limit) ==
    [goal |-> [g EXCEPT !.contributionHistory = SortByDateDesc(@)],
     value |-> Slice(SortByDateDesc(g.contributionHistory), limit)]

\* a query ends: the goal is as the query left it, the record keeps what it returned
QueryReturned(op, result) ==
    /\ goal' = result.goal
    /\ last' = [ok |-> TRUE, value |-> result.value, op |-> op]
    /\ UNCHANGED exceptGoal

GetContributionsInPeriod ==
    \E period \in Periods :
        QueryReturned("getContributionsInPeriod",
                      Goal_getContributionsInPeriod(goal, period[1], period[2]))

GetRecentContributions ==
    \E limit \in Limits :
        QueryReturned("getRecentContributions", Goal_getRecentContributions(goal, limit))

NextContributions ==
    \/ Tick
    \/ AddContribution
    \/ RemoveContribution
    \/ GetContributionsInPeriod
    \/ GetRecentContributions

----------------------------------------------------------------------------
(* Household: its partners, each Partner object standing for its id *)

\* most partners a household takes
MaxHouseholdPartners == 2
\* largest partner id enumerated
MaxPartnerId == 4
HouseholdPartnerIds == 1..MaxPartnerId

\* mutant: the number of partners is not checked
Household_addPartner_unlimited(h, partner) ==
    IF \E i \in 1..Len(h.partners) : h.partners[i] = partner
    THEN Err("Partner already exists in household")
    ELSE Ok([h EXCEPT !.partners = Append(@, partner)])

\* addPartner(partner)
Household_addPartner(h, partner) ==
    IF Len(h.partners) >= MaxHouseholdPartners
    THEN Err("Household can have maximum 2 partners")
    ELSE IF \E i \in 1..Len(h.partners) : h.partners[i] = partner
    THEN Err("Partner already exists in household")
    ELSE Ok([h EXCEPT !.partners = Append(@, partner)])

\* removePartner(partnerId)
Household_removePartner(h, partnerId) ==
    LET index == IF \E i \in 1..Len(h.partners) : h.partners[i] = partnerId
                 THEN CHOOSE i \in 1..Len(h.partners) :
                          /\ h.partners[i] = partnerId
                          /\ \A j \in 1..(i - 1) : h.partners[j] # partnerId
                 ELSE 0
    IN  IF index = 0 THEN Err("Partner not found in household")
        ELSE Ok([h EXCEPT !.partners = Splice(@, index)])

AddPartner ==
    \E partner \in HouseholdPartnerIds :
        HouseholdReturned([ok |-> FALSE, op |-> "addPartner", id |-> partner],
                          Household_addPartner(household, partner))

RemovePartner ==
    \E partnerId \in HouseholdPartnerIds :
        HouseholdReturned([ok |-> FALSE, op |-> "removePartner", id |-> partnerId],
                          Household_removePartner(household, partnerId))

NextPartners ==
    \/ AddPartner
    \/ RemovePartner

----------------------------------------------------------------------------
(* Agreement: shouldAlert

   The deviation is computed on `amount`, the cents divided by 100 as a double:
   `-` and `/` on doubles give the exact result rounded to 53 significant bits.
   Records are the arrays Object.entries gives: <<partnerId, Money>> pairs. *)

\* `bits` behind zeros, `width` digits in all, and `bits` before `count` zeros
PadFront(bits, width) ==
    [i \in 1..width |-> IF i <= width - Len(bits) THEN 0 ELSE bits[i - (width - Len(bits))]]

PadBack(bits, count) == bits \o [i \in 1..count |-> 0]

\* `bits` without its leading zeros
Normal(bits) ==
    IF \A i \in 1..Len(bits) : bits[i] = 0 THEN <<>>
    ELSE SubSeq(bits,
                CHOOSE i \in 1..Len(bits) : bits[i] = 1 /\ \A j \in 1..(i - 1) : bits[j] = 0,
                Len(bits))

\* Exact arithmetic on long numbers: three digits in base 2^LimbBits, the most
\* significant first
LimbBits == (SignificandBits + 1) \div 2
LimbBase == Pow2(LimbBits)

ToLimbs(bits) ==
    <<ToInteger(SubSeq(PadFront(bits, 3 * LimbBits), 1, LimbBits)),
      ToInteger(SubSeq(PadFront(bits, 3 * LimbBits), LimbBits + 1, 2 * LimbBits)),
      ToInteger(SubSeq(PadFront(bits, 3 * LimbBits), 2 * LimbBits + 1, 3 * LimbBits))>>

ToBits(limbs) ==
    Normal(PadFront(Binary(limbs[1]), LimbBits) \o PadFront(Binary(limbs[2]), LimbBits)
           \o PadFront(Binary(limbs[3]), LimbBits))

LimbsLess(a, b) ==
    \/ a[1] < b[1]
    \/ a[1] = b[1] /\ a[2] < b[2]
    \/ a[1] = b[1] /\ a[2] = b[2] /\ a[3] < b[3]

\* a - b, for a >= b
LimbsMinus(a, b) ==
    LET low     == a[3] - b[3]
        borrow  == IF low < 0 THEN 1 ELSE 0
        mid     == a[2] - b[2] - borrow
        borrow2 == IF mid < 0 THEN 1 ELSE 0
    IN  <<a[1] - b[1] - borrow2, mid + borrow2 * LimbBase, low + borrow * LimbBase>>

\* 2 * a
LimbsTwice(a) ==
    <<2 * a[1] + ((2 * a[2]) \div LimbBase),
      ((2 * a[2]) % LimbBase) + ((2 * a[3]) \div LimbBase),
      (2 * a[3]) % LimbBase>>

\* Math.abs(x - y) on doubles x, y >= 0: the digits are aligned on the lower
\* exponent, subtracted exactly and rounded
Double_minus(x, y) ==
    IF y = DoubleZero THEN x
    ELSE IF x = DoubleZero THEN y
    ELSE LET low == IF x.exp < y.exp THEN x.exp ELSE y.exp
             a   == ToLimbs(PadBack(x.bits, x.exp - low))
             b   == ToLimbs(PadBack(y.bits, y.exp - low))
             d   == ToBits(IF LimbsLess(a, b) THEN LimbsMinus(b, a) ELSE LimbsMinus(a, b))
         IN  IF d = <<>> THEN DoubleZero
             ELSE Double_round(IF Len(d) < SignificandBits
                               THEN PadBack(d, SignificandBits - Len(d)) ELSE d,
                               low - SignificandBits + Len(d), FALSE)

\* long division: `bits` followed by the next bits of r/d (r < d), up to `count`
\* bits in all, and the remainder left
RECURSIVE QuotientOfLimbs(_, _, _, _)
QuotientOfLimbs(r, d, count, bits) ==
    IF Len(bits) = count THEN [bits |-> bits, rem |-> r]
    ELSE IF LimbsLess(LimbsTwice(r), d)
    THEN QuotientOfLimbs(LimbsTwice(r), d, count, Append(bits, 0))
    ELSE QuotientOfLimbs(LimbsMinus(LimbsTwice(r), d), d, count, Append(bits, 1))

\* x / y on doubles, x >= 0 and y > 0
Double_over(x, y) ==
    IF x = DoubleZero THEN DoubleZero
    ELSE LET d     == ToLimbs(y.bits)
             n     == ToLimbs(x.bits)
             less  == LimbsLess(n, d)
             first == IF less THEN LimbsTwice(n) ELSE n
             q     == QuotientOfLimbs(LimbsMinus(first, d), d, SignificandBits + 1, <<1>>)
         IN  Double_round(q.bits, x.exp - y.exp - (IF less THEN 1 ELSE 0),
                          q.rem # <<0, 0, 0>>)

\* x > n, for a double x >= 0 below 2^31 and an integer n >= 0
Double_greaterThan(x, n) ==
    IF x = DoubleZero THEN FALSE
    ELSE IF x.exp < 0 THEN n = 0
    ELSE \/ ToInteger(SubSeq(x.bits, 1, x.exp + 1)) > n
         \/ /\ ToInteger(SubSeq(x.bits, 1, x.exp + 1)) = n
            /\ \E i \in (x.exp + 2)..SignificandBits : x.bits[i] = 1

\* get amount(): this._amountInCents / 100, for cents >= 0
Money_amount(this) == Double_of(this.amountInCents, 100)

\* Math.abs(((actualAmount.amount - expectedAmount.amount) / expectedAmount.amount) * 100)
DeviationPercentage(actualAmount, expectedAmount) ==
    LET quotient == Double_over(Double_minus(Money_amount(actualAmount),
                                             Money_amount(expectedAmount)),
                                Money_amount(expectedAmount))
    IN  IF quotient = DoubleZero THEN DoubleZero ELSE Double_times(quotient, 100)

\* actualSplit[partnerId]: the amount of the first entry with that key, if any
Lookup(entries, partnerId) ==
    IF \E i \in 1..Len(entries) : entries[i][1] = partnerId
    THEN Some(entries[CHOOSE i \in 1..Len(entries) : entries[i][1] = partnerId][2])
    ELSE Undefined

\* the loop of shouldAlert over Object.entries(expectedSplit), from entry i on
RECURSIVE AlertLoop(_, _, _, _)
AlertLoop(a, actualSplit, expectedSplit, i) ==
    IF i > Len(expectedSplit) THEN FALSE
    ELSE IF Lookup(actualSplit, expectedSplit[i][1]) = Undefined
    THEN AlertLoop(a, actualSplit, expectedSplit, i + 1)
    ELSE IF Money_isZero(expectedSplit[i][2])
    THEN AlertLoop(a, actualSplit, expectedSplit, i + 1)
    ELSE IF Double_greaterThan(
                DeviationPercentage(Lookup(actualSplit, expectedSplit[i][1])[1],
                                    expectedSplit[i][2]),
                a.alerts.thresholdPercentage)
    THEN TRUE
    ELSE AlertLoop(a, actualSplit, expectedSplit, i + 1)

\* shouldAlert(actualSplit, expectedSplit)
Agreement_shouldAlert(a, actualSplit, expectedSplit) ==
    IF ~a.alerts.enabled THEN FALSE
    ELSE AlertLoop(a, actualSplit, expectedSplit, 1)

\* largest amount in cents of a split, next to R$ 1.00 and R$ 1.10; the alert
\* settings are changed at most MaxAlertUpdates times
MaxAlertCents == 10
MaxAlertUpdates == 2

AlertCents == {0} \cup 9..MaxAlertCents \cup {100, 110}
AlertPartnerIds == {1, 2}
AlertSettings == {[enabled |-> FALSE], [enabled |-> TRUE, thresholdPercentage |-> 20]}

\* the records over the partners: each partner absent or with an amount, the
\* keys in either order
SplitRecords ==
    {<<>>}
    \cup {<<<<p, BRL(c)>>>> : p \in AlertPartnerIds, c \in AlertCents}
    \cup {<<<<pq[1], BRL(c)>>, <<pq[2], BRL(d)>>>> :
            pq \in {x \in AlertPartnerIds \X AlertPartnerIds : x[1] # x[2]},
            c \in AlertCents, d \in AlertCents}

\* updateAlerts(newAlerts, changedBy)
ConfigureAlerts ==
    /\ Len(agreement.history) <= MaxAlertUpdates
    /\ \E newAlerts \in AlertSettings :
          agreement' = Agreement_updateAlerts(agreement, newAlerts, "p1", Undefined, now).value
    /\ agreementCall' = [ok |-> TRUE, op |-> "updateAlerts",
                         actualSplit |-> agreementCall.actualSplit,
                         expectedSplit |-> agreementCall.expectedSplit]
    /\ UNCHANGED <<now, succeeded, held, exceptAgreement>>

\* shouldAlert(actualSplit, expectedSplit) on the records drawn at the start
ShouldAlert ==
    /\ agreementCall' = [ok |-> TRUE,
                         value |-> Agreement_shouldAlert(agreement,
                                                         agreementCall.actualSplit,
                                                         agreementCall.expectedSplit),
                         op |-> "shouldAlert",
                         actualSplit |-> agreementCall.actualSplit,
                         expectedSplit |-> agreementCall.expectedSplit]
    /\ UNCHANGED <<agreement, now, succeeded, held, exceptAgreement>>

NextAlerts ==
    \/ ConfigureAlerts
    \/ ShouldAlert

----------------------------------------------------------------------------
(* Goal: its owners *)

\* largest enumerated partner id of an owner
MaxOwnerId == 3

OwnerIds == 1..MaxOwnerId
\* the lists a caller passes to the constructor: empty, one or two owners, and
\* one that names a partner twice
OwnerLists == {<<>>, <<1>>, <<1, 2>>, <<1, 1>>}

\* new Goal(..., targetAmount, targetDate, ownerIds): this._ownerIds = [...ownerIds]
NewGoalOf(targetAmount, ownerIds) == [ownerIds |-> ownerIds] @@ NewGoal(targetAmount)

\* _ownerIds.includes(partnerId)
Includes(ownerIds, partnerId) == \E i \in 1..Len(ownerIds) : ownerIds[i] = partnerId

\* addOwner(partnerId)
Goal_addOwner(g, partnerId) ==
    IF Includes(g.ownerIds, partnerId)
    THEN Err("Partner is already an owner of this goal")
    ELSE Ok([g EXCEPT !.ownerIds = Append(g.ownerIds, partnerId)])

\* removeOwner(partnerId): indexOf gives the first index, splice removes it
Goal_removeOwner(g, partnerId) ==
    IF ~Includes(g.ownerIds, partnerId)
    THEN Err("Partner is not an owner of this goal")
    ELSE IF Len(g.ownerIds) = 1
    THEN Err("Goal must have at least one owner")
    ELSE LET index == CHOOSE i \in 1..Len(g.ownerIds) :
                         /\ g.ownerIds[i] = partnerId
                         /\ \A j \in 1..(i - 1) : g.ownerIds[j] # partnerId
         IN  Ok([g EXCEPT !.ownerIds = SubSeq(g.ownerIds, 1, index - 1)
                                       \o SubSeq(g.ownerIds, index + 1, Len(g.ownerIds))])

AddOwner ==
    \E partnerId \in OwnerIds :
        Returned([ok |-> FALSE, op |-> "addOwner", partnerId |-> partnerId],
                 Goal_addOwner(goal, partnerId))

RemoveOwner ==
    \E partnerId \in OwnerIds :
        Returned([ok |-> FALSE, op |-> "removeOwner", partnerId |-> partnerId],
                 Goal_removeOwner(goal, partnerId))

NextOwners ==
    \/ AddOwner
    \/ RemoveOwner

----------------------------------------------------------------------------
(* Specifications *)

\* the idle values of the entities a specification does not exercise
IdleAgreement == NewAgreement(FIXED_EXPENSES, "rent", EqualExample, 0, 0)
IdleHousehold == NewHousehold
IdleEnvelope  == NewBudgetEnvelope(BRL(2))
IdleTransaction == NewTransaction(BRL(2))
IdleAccounts == [id \in AccountIds |-> NewAccount("BRL")]

\* Money: operands are drawn, one operation or one chain is applied
InitMoney ==
    /\ calc = NoCall
    /\ \E m \in MoneyInputs : chain = NewChain(m)
    /\ rule = Undefined
    /\ splitCall = NoCall
    /\ goal = NewGoal(BRL(1))
    /\ last = NoCall
    /\ now = 0
    /\ agreement = IdleAgreement
    /\ agreementCall = NoCall
    /\ succeeded = 0
    /\ held = Undefined
    /\ household = IdleHousehold
    /\ pool = <<>>
    /\ householdCall = NoCall
    /\ envelope = IdleEnvelope
    /\ envelopeCall = NoCall
    /\ transaction = IdleTransaction
    /\ transactionCall = NoCall
    /\ accounts = IdleAccounts
    /\ accountCall = NoCall
    /\ aliasHeap = Undefined
    /\ aliasCall = NoCall
    /\ constructed = NoCall
    /\ rounded = NoCall
    /\ repository = <<>>
    /\ executions = <<>>

\* SplitRule: no rule yet; one is constructed, then split is called on it
InitSplit ==
    /\ calc = NoCall
    /\ chain = NewChain(Money_zero("BRL"))
    /\ rule = Undefined
    /\ splitCall = NoCall
    /\ goal = NewGoal(BRL(1))
    /\ last = NoCall
    /\ now = 0
    /\ agreement = IdleAgreement
    /\ agreementCall = NoCall
    /\ succeeded = 0
    /\ held = Undefined
    /\ household = IdleHousehold
    /\ pool = <<>>
    /\ householdCall = NoCall
    /\ envelope = IdleEnvelope
    /\ envelopeCall = NoCall
    /\ transaction = IdleTransaction
    /\ transactionCall = NoCall
    /\ accounts = IdleAccounts
    /\ accountCall = NoCall
    /\ aliasHeap = Undefined
    /\ aliasCall = NoCall
    /\ constructed = NoCall
    /\ rounded = NoCall
    /\ repository = <<>>
    /\ executions = <<>>

\* Goal: the state after new Goal(..., targetAmount, ...)
InitGoal ==
    /\ calc = NoCall
    /\ chain = NewChain(Money_zero("BRL"))
    /\ rule = Undefined
    /\ splitCall = NoCall
    /\ \E targetAmount \in GoalMoney : goal = NewGoal(targetAmount)
    /\ last = NoCall
    /\ now = 0
    /\ agreement = IdleAgreement
    /\ agreementCall = NoCall
    /\ succeeded = 0
    /\ held = Undefined
    /\ household = IdleHousehold
    /\ pool = <<>>
    /\ householdCall = NoCall
    /\ envelope = IdleEnvelope
    /\ envelopeCall = NoCall
    /\ transaction = IdleTransaction
    /\ transactionCall = NoCall
    /\ accounts = IdleAccounts
    /\ accountCall = NoCall
    /\ aliasHeap = Undefined
    /\ aliasCall = NoCall
    /\ constructed = NoCall
    /\ rounded = NoCall
    /\ repository = <<>>
    /\ executions = <<>>

\* Agreement: the state after new Agreement(householdId, type, name, splitRule,
\* effectiveFrom) at time 0
InitAgreement ==
    /\ calc = NoCall
    /\ chain = NewChain(Money_zero("BRL"))
    /\ rule = Undefined
    /\ splitCall = NoCall
    /\ goal = NewGoal(BRL(1))
    /\ last = NoCall
    /\ now = 0
    /\ agreement = NewAgreement(FIXED_EXPENSES, "rent", EqualExample, 0, 0)
    /\ agreementCall = NoCall
    /\ succeeded = 0
    /\ held = Undefined
    /\ household = IdleHousehold
    /\ pool = <<>>
    /\ householdCall = NoCall
    /\ envelope = IdleEnvelope
    /\ envelopeCall = NoCall
    /\ transaction = IdleTransaction
    /\ transactionCall = NoCall
    /\ accounts = IdleAccounts
    /\ accountCall = NoCall
    /\ aliasHeap = Undefined
    /\ aliasCall = NoCall
    /\ constructed = NoCall
    /\ rounded = NoCall
    /\ repository = <<>>
    /\ executions = <<>>

\* Household: the state after new Household(name); no Agreement exists yet
InitHousehold ==
    /\ calc = NoCall
    /\ chain = NewChain(Money_zero("BRL"))
    /\ rule = Undefined
    /\ splitCall = NoCall
    /\ goal = NewGoal(BRL(1))
    /\ last = NoCall
    /\ now = 0
    /\ agreement = IdleAgreement
    /\ agreementCall = NoCall
    /\ succeeded = 0
    /\ held = Undefined
    /\ household = NewHousehold
    /\ pool = <<>>
    /\ householdCall = NoCall
    /\ envelope = IdleEnvelope
    /\ envelopeCall = NoCall
    /\ transaction = IdleTransaction
    /\ transactionCall = NoCall
    /\ accounts = IdleAccounts
    /\ accountCall = NoCall
    /\ aliasHeap = Undefined
    /\ aliasCall = NoCall
    /\ constructed = NoCall
    /\ rounded = NoCall
    /\ repository = <<>>
    /\ executions = <<>>

\* BudgetEnvelope: the state after new BudgetEnvelope(..., limit, ...)
InitEnvelope ==
    /\ calc = NoCall
    /\ chain = NewChain(Money_zero("BRL"))
    /\ rule = Undefined
    /\ splitCall = NoCall
    /\ goal = NewGoal(BRL(1))
    /\ last = NoCall
    /\ now = 0
    /\ agreement = IdleAgreement
    /\ agreementCall = NoCall
    /\ succeeded = 0
    /\ held = Undefined
    /\ household = IdleHousehold
    /\ pool = <<>>
    /\ householdCall = NoCall
    /\ \E limit \in EnvelopeLimits : envelope = NewBudgetEnvelope(limit)
    /\ envelopeCall = NoCall
    /\ transaction = IdleTransaction
    /\ transactionCall = NoCall
    /\ accounts = IdleAccounts
    /\ accountCall = NoCall
    /\ aliasHeap = Undefined
    /\ aliasCall = NoCall
    /\ constructed = NoCall
    /\ rounded = NoCall
    /\ repository = <<>>
    /\ executions = <<>>

\* Accessors: the same new agreement, no array handed out yet
InitCopies ==
    /\ calc = NoCall
    /\ chain = NewChain(Money_zero("BRL"))
    /\ rule = Undefined
    /\ splitCall = NoCall
    /\ goal = NewGoal(BRL(1))
    /\ last = NoCall
    /\ now = 0
    /\ agreement = NewAgreement(FIXED_EXPENSES, "rent", EqualExample, 0, 0)
    /\ agreementCall = NoCall
    /\ succeeded = 0
    /\ held = Undefined
    /\ household = IdleHousehold
    /\ pool = <<>>
    /\ householdCall = NoCall
    /\ envelope = IdleEnvelope
    /\ envelopeCall = NoCall
    /\ transaction = IdleTransaction
    /\ transactionCall = NoCall
    /\ accounts = IdleAccounts
    /\ accountCall = NoCall
    /\ aliasHeap = Undefined
    /\ aliasCall = NoCall
    /\ constructed = NoCall
    /\ rounded = NoCall
    /\ repository = <<>>
    /\ executions = <<>>

\* Transaction: the state after new Transaction(accountId, amount, type, description)
InitTransaction ==
    /\ calc = NoCall
    /\ chain = NewChain(Money_zero("BRL"))
    /\ rule = Undefined
    /\ splitCall = NoCall
    /\ goal = NewGoal(BRL(1))
    /\ last = NoCall
    /\ now = 0
    /\ agreement = IdleAgreement
    /\ agreementCall = NoCall
    /\ succeeded = 0
    /\ held = Undefined
    /\ household = IdleHousehold
    /\ pool = <<>>
    /\ householdCall = NoCall
    /\ envelope = IdleEnvelope
    /\ envelopeCall = NoCall
    /\ \E amount \in TransactionAmounts : transaction = NewTransaction(amount)
    /\ transactionCall = NoCall
    /\ accounts = IdleAccounts
    /\ accountCall = NoCall
    /\ aliasHeap = Undefined
    /\ aliasCall = NoCall
    /\ constructed = NoCall
    /\ rounded = NoCall
    /\ repository = <<>>
    /\ executions = <<>>

\* Failing calls: two new accounts, a new transaction and a new agreement
InitFailing ==
    /\ calc = NoCall
    /\ chain = NewChain(Money_zero("BRL"))
    /\ rule = Undefined
    /\ splitCall = NoCall
    /\ goal = NewGoal(BRL(1))
    /\ last = NoCall
    /\ now = 0
    /\ agreement = IdleAgreement
    /\ agreementCall = NoCall
    /\ succeeded = 0
    /\ held = Undefined
    /\ household = IdleHousehold
    /\ pool = <<>>
    /\ householdCall = NoCall
    /\ envelope = IdleEnvelope
    /\ envelopeCall = NoCall
    /\ transaction = NewTransaction(BRL(2))
    /\ transactionCall = NoCall
    /\ \E currency \in Currencies :
          accounts = [IdleAccounts EXCEPT !["b"] = NewAccount(currency)]
    /\ accountCall = NoCall
    /\ aliasHeap = Undefined
    /\ aliasCall = NoCall
    /\ constructed = NoCall
    /\ rounded = NoCall
    /\ repository = <<>>
    /\ executions = <<>>

\* SplitRule and its caller: a rule has just been constructed from a valid config
InitAlias ==
    /\ calc = NoCall
    /\ chain = NewChain(BRL(0))
    /\ rule = Undefined
    /\ splitCall = NoCall
    /\ goal = NewGoal(BRL(1))
    /\ last = NoCall
    /\ now = 0
    /\ agreement = IdleAgreement
    /\ agreementCall = NoCall
    /\ succeeded = 0
    /\ held = Undefined
    /\ household = IdleHousehold
    /\ pool = <<>>
    /\ householdCall = NoCall
    /\ envelope = IdleEnvelope
    /\ envelopeCall = NoCall
    /\ transaction = IdleTransaction
    /\ transactionCall = NoCall
    /\ accounts = IdleAccounts
    /\ accountCall = NoCall
    /\ \E config \in {c \in AliasConfigs : validateConfig(c)} : aliasHeap = NewHeap(config)
    /\ aliasCall = NoCall
    /\ constructed = NoCall
    /\ rounded = NoCall
    /\ repository = <<>>
    /\ executions = <<>>

\* Constructors: no object yet; entities are constructed and renamed
InitConstructed ==
    /\ calc = NoCall
    /\ chain = NewChain(BRL(0))
    /\ rule = Undefined
    /\ splitCall = NoCall
    /\ goal = NewGoal(BRL(1))
    /\ last = NoCall
    /\ now = 0
    /\ agreement = IdleAgreement
    /\ agreementCall = NoCall
    /\ succeeded = 0
    /\ held = Undefined
    /\ household = IdleHousehold
    /\ pool = <<>>
    /\ householdCall = NoCall
    /\ envelope = IdleEnvelope
    /\ envelopeCall = NoCall
    /\ transaction = IdleTransaction
    /\ transactionCall = NoCall
    /\ accounts = IdleAccounts
    /\ accountCall = NoCall
    /\ aliasHeap = Undefined
    /\ aliasCall = NoCall
    /\ constructed = [ok |-> FALSE, op |-> "none", name |-> "", entity |-> "", object |-> Undefined]
    /\ rounded = NoCall
    /\ repository = <<>>
    /\ executions = <<>>

\* Money on doubles: an amount in cents is drawn, one operation is applied to it
InitRounded ==
    /\ calc = NoCall
    /\ chain = NewChain(BRL(0))
    /\ rule = Undefined
    /\ splitCall = NoCall
    /\ goal = NewGoal(BRL(1))
    /\ last = NoCall
    /\ now = 0
    /\ agreement = IdleAgreement
    /\ agreementCall = NoCall
    /\ succeeded = 0
    /\ held = Undefined
    /\ household = IdleHousehold
    /\ pool = <<>>
    /\ householdCall = NoCall
    /\ envelope = IdleEnvelope
    /\ envelopeCall = NoCall
    /\ transaction = IdleTransaction
    /\ transactionCall = NoCall
    /\ accounts = IdleAccounts
    /\ accountCall = NoCall
    /\ aliasHeap = Undefined
    /\ aliasCall = NoCall
    /\ constructed = NoCall
    /\ \E cents \in RoundedCents : rounded = [op |-> "none", cents |-> cents]
    /\ repository = <<>>
    /\ executions = <<>>

\* CreateHousehold: an empty repository, and no execute call made yet
InitRepository ==
    /\ calc = NoCall
    /\ chain = NewChain(BRL(0))
    /\ rule = Undefined
    /\ splitCall = NoCall
    /\ goal = NewGoal(BRL(1))
    /\ last = NoCall
    /\ now = 0
    /\ agreement = IdleAgreement
    /\ agreementCall = NoCall
    /\ succeeded = 0
    /\ held = Undefined
    /\ household = IdleHousehold
    /\ pool = <<>>
    /\ householdCall = NoCall
    /\ envelope = IdleEnvelope
    /\ envelopeCall = NoCall
    /\ transaction = IdleTransaction
    /\ transactionCall = NoCall
    /\ accounts = IdleAccounts
    /\ accountCall = NoCall
    /\ aliasHeap = Undefined
    /\ aliasCall = NoCall
    /\ constructed = NoCall
    /\ rounded = NoCall
    /\ repository = <<>>
    /\ executions = [p \in Executions |-> [pc |-> "idle"]]

\* Goal queries: a goal without contributions; time passes between the calls
InitContributions ==
    /\ calc = NoCall
    /\ chain = NewChain(BRL(0))
    /\ rule = Undefined
    /\ splitCall = NoCall
    /\ \E targetAmount \in GoalMoney : goal = NewGoal(targetAmount)
    /\ last = NoCall
    /\ now = 0
    /\ agreement = IdleAgreement
    /\ agreementCall = NoCall
    /\ succeeded = 0
    /\ held = Undefined
    /\ household = IdleHousehold
    /\ pool = <<>>
    /\ householdCall = NoCall
    /\ envelope = IdleEnvelope
    /\ envelopeCall = NoCall
    /\ transaction = IdleTransaction
    /\ transactionCall = NoCall
    /\ accounts = IdleAccounts
    /\ accountCall = NoCall
    /\ aliasHeap = Undefined
    /\ aliasCall = NoCall
    /\ constructed = NoCall
    /\ rounded = NoCall
    /\ repository = <<>>
    /\ executions = <<>>

\* Household partners: a household just constructed
InitPartners ==
    /\ calc = NoCall
    /\ chain = NewChain(BRL(0))
    /\ rule = Undefined
    /\ splitCall = NoCall
    /\ goal = NewGoal(BRL(1))
    /\ last = NoCall
    /\ now = 0
    /\ agreement = IdleAgreement
    /\ agreementCall = NoCall
    /\ succeeded = 0
    /\ held = Undefined
    /\ household = NewHousehold
    /\ pool = <<>>
    /\ householdCall = NoCall
    /\ envelope = IdleEnvelope
    /\ envelopeCall = NoCall
    /\ transaction = IdleTransaction
    /\ transactionCall = NoCall
    /\ accounts = IdleAccounts
    /\ accountCall = NoCall
    /\ aliasHeap = Undefined
    /\ aliasCall = NoCall
    /\ constructed = NoCall
    /\ rounded = NoCall
    /\ repository = <<>>
    /\ executions = <<>>

\* shouldAlert: a new agreement, and the two records a caller passes
InitAlerts ==
    /\ calc = NoCall
    /\ chain = NewChain(BRL(0))
    /\ rule = Undefined
    /\ splitCall = NoCall
    /\ goal = NewGoal(BRL(1))
    /\ last = NoCall
    /\ now = 0
    /\ agreement = IdleAgreement
    /\ \E actualSplit \in SplitRecords, expectedSplit \in SplitRecords :
          agreementCall = [ok |-> TRUE, op |-> "none", actualSplit |-> actualSplit,
                           expectedSplit |-> expectedSplit]
    /\ succeeded = 0
    /\ held = Undefined
    /\ household = IdleHousehold
    /\ pool = <<>>
    /\ householdCall = NoCall
    /\ envelope = IdleEnvelope
    /\ envelopeCall = NoCall
    /\ transaction = IdleTransaction
    /\ transactionCall = NoCall
    /\ accounts = IdleAccounts
    /\ accountCall = NoCall
    /\ aliasHeap = Undefined
    /\ aliasCall = NoCall
    /\ constructed = NoCall
    /\ rounded = NoCall
    /\ repository = <<>>
    /\ executions = <<>>

\* Goal owners: a goal has just been constructed with a list of owners
InitOwners ==
    /\ calc = NoCall
    /\ chain = NewChain(BRL(0))
    /\ rule = Undefined
    /\ splitCall = NoCall
    /\ \E ownerIds \in OwnerLists : goal = NewGoalOf(BRL(1), ownerIds)
    /\ last = NoCall
    /\ now = 0
    /\ agreement = IdleAgreement
    /\ agreementCall = NoCall
    /\ succeeded = 0
    /\ held = Undefined
    /\ household = IdleHousehold
    /\ pool = <<>>
    /\ householdCall = NoCall
    /\ envelope = IdleEnvelope
    /\ envelopeCall = NoCall
    /\ transaction = IdleTransaction
    /\ transactionCall = NoCall
    /\ accounts = IdleAccounts
    /\ accountCall = NoCall
    /\ aliasHeap = Undefined
    /\ aliasCall = NoCall
    /\ constructed = NoCall
    /\ rounded = NoCall
    /\ repository = <<>>
    /\ executions = <<>>

SpecMoney == InitMoney /\ [][NextMoney]_vars
SpecSplit == InitSplit /\ [][NextSplit]_vars
SpecGoal  == InitGoal /\ [][NextGoal]_vars
SpecAgreement == InitAgreement /\ [][NextAgreement]_vars
SpecHousehold == InitHousehold /\ [][NextHousehold]_vars
SpecEnvelope  == InitEnvelope /\ [][NextEnvelope]_vars
SpecCopies    == InitCopies /\ [][NextCopies]_vars
SpecTransaction == InitTransaction /\ [][NextTransaction]_vars
SpecFailing   == InitFailing /\ [][NextFailing]_vars
SpecAlias     == InitAlias /\ [][NextAlias]_vars
SpecConstructed == InitConstructed /\ [][NextConstructed]_vars
SpecRounded   == InitRounded /\ [][NextRounded]_vars
SpecRepository == InitRepository /\ [][NextRepository]_vars
SpecContributions == InitContributions /\ [][NextContributions]_vars
SpecPartners  == InitPartners /\ [][NextPartners]_vars
SpecAlerts    == InitAlerts /\ [][NextAlerts]_vars
SpecOwners    == InitOwners /\ [][NextOwners]_vars

----------------------------------------------------------------------------
(* Claims about SplitRule.split, checked under SpecSplit *)

SplitDone(type) == splitCall.op = "split" /\ rule[1].type = type
SplitOk == splitCall.op = "split" /\ splitCall.result.ok

RECURSIVE SumAmountInCents(_, _)
SumAmountInCents(results, i) ==
    IF i > Len(results) THEN 0
    ELSE results[i].amount.amountInCents + SumAmountInCents(results, i + 1)

\* C1: whenever split succeeds, whatever the split type, the amounts of the
\* returned results sum, in cents, to exactly the amount that was split.
C1_SplitReconciles ==
    SplitOk =>
        SumAmountInCents(splitCall.result.value, 1) = splitCall.amount.amountInCents

\* the documented end-to-end case: incomes 4500.00 and 3200.00, split(1000.00 BRL)
ProportionalExampleDone ==
    /\ splitCall.op = "split"
    /\ rule = Some(ProportionalExample)
    /\ splitCall.amount = BRL(100000)
    /\ splitCall.partnerIncomes = Some(ExampleIncomes)

\* a percentage in hundredths of a percent (57.79% is 5779)
Hundredths(percentage) == MathRound(percentage.num * 100, percentage.den)

ExampleGives(centsA, percentA, centsB, percentB) ==
    ProportionalExampleDone =>
        /\ splitCall.result.ok
        /\ Len(splitCall.result.value) = 2
        /\ splitCall.result.value[1].amount = BRL(centsA)
        /\ splitCall.result.value[2].amount = BRL(centsB)
        /\ Hundredths(splitCall.result.value[1].percentage) = percentA
        /\ Hundredths(splitCall.result.value[2].percentage) = percentB
        /\ SumAmountInCents(splitCall.result.value, 1) = 100000

\* C2 as stated: the example gives A 577.92 BRL (57.79%) and B 422.08 BRL
\* (42.21%), summing to 1000.00 BRL.
C2_ExampleAsStated == ExampleGives(57792, 5779, 42208, 4221)

\* C2 amended: the example gives A 584.42 BRL (58.44%) and B 415.58 BRL
\* (41.56%), summing to exactly 1000.00 BRL.
C2_ExampleAmended == ExampleGives(58442, 5844, 41558, 4156)

C2_Witness == ProportionalExampleDone /\ splitCall.result.ok

\* the configured amounts of the rule, in cents, and whether all are in the amount's currency
FixedCents(i)  == rule[1].partners[i].fixedAmount[1].amountInCents
CustomCents(i) == rule[1].partners[i].customAmount[1].amountInCents
PartnerCount   == Len(rule[1].partners)

RECURSIVE SumOver(_, _)
SumOver(f, n) == IF n = 0 THEN 0 ELSE f[n] + SumOver(f, n - 1)

TotalFixed  == SumOver([i \in 1..PartnerCount |-> FixedCents(i)], PartnerCount)
TotalCustom == SumOver([i \in 1..PartnerCount |-> CustomCents(i)], PartnerCount)

FixedInCurrency ==
    \A i \in 1..PartnerCount :
        rule[1].partners[i].fixedAmount[1].currency = splitCall.amount.currency
CustomInCurrency ==
    \A i \in 1..PartnerCount :
        rule[1].partners[i].customAmount[1].currency = splitCall.amount.currency

ResultCents(i) == splitCall.result.value[i].amount.amountInCents

\* q is an integer nearest to n/d (d > 0)
Nearest(q, n, d) == 2 * Abs(d * q - n) <= d

\* C3 as stated: a FIXED split of T fails when the fixed amounts' sum F exceeds
\* T, and otherwise returns for every partner its fixed amount plus (T - F)/N.
C3_FixedAsStated ==
    SplitDone(FIXED) =>
        /\ TotalFixed > splitCall.amount.amountInCents => ~splitCall.result.ok
        /\ TotalFixed <= splitCall.amount.amountInCents =>
              /\ splitCall.result.ok
              /\ \A i \in 1..PartnerCount :
                    PartnerCount * (ResultCents(i) - FixedCents(i))
                        = splitCall.amount.amountInCents - TotalFixed

\* C3 amended: a FIXED split of T succeeds exactly when T is positive, every
\* fixed amount is in T's currency and F <= T; it then returns for every partner
\* its fixed amount plus (T - F)/N rounded to a nearest cent.
C3_FixedAmended ==
    SplitDone(FIXED) =>
        /\ splitCall.result.ok <=>
              /\ splitCall.amount.amountInCents > 0
              /\ FixedInCurrency
              /\ TotalFixed <= splitCall.amount.amountInCents
        /\ splitCall.result.ok =>
              /\ Len(splitCall.result.value) = PartnerCount
              /\ \A i \in 1..PartnerCount :
                    /\ splitCall.result.value[i].partnerId = rule[1].partners[i].partnerId
                    /\ splitCall.result.value[i].amount.currency = splitCall.amount.currency
                    /\ Nearest(ResultCents(i) - FixedCents(i),
                               splitCall.amount.amountInCents - TotalFixed, PartnerCount)

\* fixed amounts [30, 20] on 100 BRL give [55, 45]
C3_Witness ==
    /\ SplitDone(FIXED)
    /\ rule = Some(FixedExample)
    /\ splitCall.amount = BRL(10000)
    /\ splitCall.result.ok
    /\ ResultCents(1) = 5500
    /\ ResultCents(2) = 4500

\* C4 as stated: a CUSTOM split of T succeeds if and only if the custom amounts
\* sum, in cents, to T, and then every partner's amount is its custom amount.
C4_CustomAsStated ==
    SplitDone(CUSTOM) =>
        /\ splitCall.result.ok <=> TotalCustom = splitCall.amount.amountInCents
        /\ splitCall.result.ok =>
              \A i \in 1..PartnerCount : ResultCents(i) = CustomCents(i)

\* C4 amended: a CUSTOM split of T succeeds if and only if T is positive, every
\* custom amount is in T's currency and the custom amounts sum, in cents, to T;
\* every partner's amount is then exactly its custom amount.
C4_CustomAmended ==
    SplitDone(CUSTOM) =>
        /\ splitCall.result.ok <=>
              /\ splitCall.amount.amountInCents > 0
              /\ CustomInCurrency
              /\ TotalCustom = splitCall.amount.amountInCents
        /\ splitCall.result.ok =>
              /\ Len(splitCall.result.value) = PartnerCount
              /\ \A i \in 1..PartnerCount :
                    /\ splitCall.result.value[i].partnerId = rule[1].partners[i].partnerId
                    /\ splitCall.result.value[i].amount = rule[1].partners[i].customAmount[1]

\* custom amounts [40, 60] on 100 BRL succeed
C4_Witness ==
    /\ SplitDone(CUSTOM)
    /\ rule = Some(CustomExampleOk)
    /\ splitCall.amount = BRL(10000)
    /\ splitCall.result.ok
    /\ ResultCents(1) = 4000
    /\ ResultCents(2) = 6000

\* custom amounts [40, 50] on 100 BRL fail
C4_MismatchFails ==
    (SplitDone(CUSTOM) /\ rule = Some(CustomExampleBad) /\ splitCall.amount = BRL(10000))
        => ~splitCall.result.ok

----------------------------------------------------------------------------
(* Claims about Money, checked under SpecMoney *)

BinaryOps ==
    {"add", "subtract", "compareTo", "isGreaterThan", "isLessThan",
     "isGreaterThanOrEqual", "isLessThanOrEqual"}

C6_MismatchThrows ==
    (calc.op \in BinaryOps /\ calc.a.currency # calc.b.currency) =>
        /\ ~calc.result.ok
        /\ "value" \notin DOMAIN calc.result

C6_Witness ==
    /\ calc.op = "isLessThanOrEqual"
    /\ calc.a.currency # calc.b.currency
    /\ ~calc.result.ok

----------------------------------------------------------------------------
(* Claims about Goal, checked under SpecGoal *)

\* C7: currentAmount never exceeds targetAmount.
C7_CurrentWithinTarget ==
    goal.currentAmount.amountInCents <= goal.targetAmount.amountInCents

\* the step is a call of addContribution that returned
AddContributionReturned == last'.op = "addContribution" /\ last'.ok

\* C8: a successful addContribution that brings currentAmount to exactly
\* targetAmount sets the status to COMPLETED with currentAmount = targetAmount;
\* one that leaves currentAmount below targetAmount does not change the status.
C8_AutoCompletion ==
    [][AddContributionReturned =>
          LET reached == goal.currentAmount.amountInCents + last'.amount.amountInCents
          IN  /\ reached = goal.targetAmount.amountInCents =>
                    /\ goal'.status = COMPLETED
                    /\ goal'.currentAmount = goal'.targetAmount
              /\ reached < goal.targetAmount.amountInCents =>
                    goal'.status = goal.status]_vars

\* a second contribution has completed the goal
C8_Witness ==
    /\ last.op = "addContribution"
    /\ last.ok
    /\ Len(goal.contributionHistory) >= 2
    /\ goal.status = COMPLETED
    /\ goal.currentAmount = goal.targetAmount

\* the conditions under which addContribution(amount) is to fail on goal g
AddContributionRejects(g, amount) ==
    \/ g.status \in {COMPLETED, CANCELLED}
    \/ amount.amountInCents <= 0
    \/ amount.currency # g.targetAmount.currency
    \/ amount.amountInCents > g.targetAmount.amountInCents - g.currentAmount.amountInCents

\* C9: addContribution fails, leaving currentAmount, status and
\* contributionHistory unchanged, when the goal is COMPLETED or CANCELLED, the
\* amount is not positive, its currency is not the goal's, or it exceeds
\* targetAmount - currentAmount; in every other case it succeeds, adds the amount
\* to currentAmount and appends exactly one history entry.
C9_AddContributionGuards ==
    [][last'.op = "addContribution" =>
          IF AddContributionRejects(goal, last'.amount)
          THEN /\ ~last'.ok
               /\ goal'.currentAmount = goal.currentAmount
               /\ goal'.status = goal.status
               /\ goal'.contributionHistory = goal.contributionHistory
          ELSE /\ last'.ok
               /\ goal'.currentAmount.amountInCents
                     = goal.currentAmount.amountInCents + last'.amount.amountInCents
               /\ Len(goal'.contributionHistory) = Len(goal.contributionHistory) + 1
               /\ SubSeq(goal'.contributionHistory, 1, Len(goal.contributionHistory))
                     = goal.contributionHistory
               /\ goal'.contributionHistory[Len(goal'.contributionHistory)].amount
                     = last'.amount]_vars

\* a positive contribution in the goal's currency was refused for exceeding what
\* remains after an earlier one
C9_Witness ==
    /\ last.op = "addContribution"
    /\ ~last.ok
    /\ goal.status = ACTIVE
    /\ last.amount.currency = goal.targetAmount.currency
    /\ last.amount.amountInCents > 0
    /\ Len(goal.contributionHistory) >= 1
    /\ goal.currentAmount.amountInCents > 0

\* the documented status edges
DocumentedEdge(from, to, op) ==
    \/ from = ACTIVE /\ to = PAUSED
    \/ from = PAUSED /\ to = ACTIVE
    \/ from = ACTIVE /\ to = COMPLETED
    \/ from \in {ACTIVE, PAUSED} /\ to = CANCELLED
    \/ from = COMPLETED /\ to = ACTIVE /\ op = "removeContribution"

\* C10: the status changes only along the documented edges; a CANCELLED goal
\* stays CANCELLED and a COMPLETED goal leaves COMPLETED only by removeContribution.
C10_DocumentedEdgesOnly ==
    [][goal'.status # goal.status =>
          DocumentedEdge(goal.status, goal'.status, last'.op)]_vars

\* the entries of `history` other than the one with the given id, in order
WithoutId(history, id) == SelectSeq(history, LAMBDA c : c.id # id)

\* C11: removeContribution(id) for an id in the history subtracts that entry's
\* amount from currentAmount, removes exactly that entry and turns a COMPLETED
\* goal ACTIVE (any other status is kept); for an id not in the history it fails
\* and changes nothing.
C11_RemoveContribution ==
    [][last'.op = "removeContribution" =>
          IF \E i \in 1..Len(goal.contributionHistory) :
                 goal.contributionHistory[i].id = last'.id
          THEN LET i == CHOOSE i \in 1..Len(goal.contributionHistory) :
                            goal.contributionHistory[i].id = last'.id
               IN  /\ last'.ok
                   /\ goal'.currentAmount.amountInCents
                         = goal.currentAmount.amountInCents
                             - goal.contributionHistory[i].amount.amountInCents
                   /\ goal'.currentAmount.currency = goal.currentAmount.currency
                   /\ goal'.contributionHistory
                         = WithoutId(goal.contributionHistory, last'.id)
                   /\ Len(goal'.contributionHistory)
                         = Len(goal.contributionHistory) - 1
                   /\ goal'.status
                         = IF goal.status = COMPLETED THEN ACTIVE ELSE goal.status
                   /\ goal'.targetAmount = goal.targetAmount
          ELSE /\ ~last'.ok
               /\ goal' = goal]_vars

\* the first of two contributions was removed from a goal they had completed
C11_Witness ==
    /\ last.op = "removeContribution"
    /\ last.ok
    /\ last.id = 1
    /\ goal.status = ACTIVE
    /\ goal.targetAmount = BRL(2)
    /\ Len(goal.contributionHistory) = 1
    /\ goal.contributionHistory[1].id = 2
    /\ goal.currentAmount = BRL(1)

----------------------------------------------------------------------------
(* Claims about Agreement, checked under SpecAgreement *)

\* the step is a call of `op` on the agreement
AgreementCalled(op) == now' = now /\ agreementCall'.op = op

\* C12: suspend succeeds only on an ACTIVE agreement, which becomes SUSPENDED,
\* and resume only on a SUSPENDED one, which becomes ACTIVE; a failed call
\* leaves status and history unchanged.
C12_SuspendResumeGuards ==
    [][/\ AgreementCalled("suspend") =>
              IF agreement.status = ACTIVE
              THEN agreementCall'.ok /\ agreement'.status = SUSPENDED
              ELSE /\ ~agreementCall'.ok
                   /\ agreement'.status = agreement.status
                   /\ agreement'.history = agreement.history
       /\ AgreementCalled("resume") =>
              IF agreement.status = SUSPENDED
              THEN agreementCall'.ok /\ agreement'.status = ACTIVE
              ELSE /\ ~agreementCall'.ok
                   /\ agreement'.status = agreement.status
                   /\ agreement'.history = agreement.history]_vars

\* a suspended agreement was resumed
C12_Witness ==
    /\ agreementCall.op = "resume"
    /\ agreementCall.ok
    /\ agreement.status = ACTIVE
    /\ \E i \in 1..Len(agreement.history) : agreement.history[i].changeType = "suspended"
    /\ \E i \in 1..Len(agreement.history) : agreement.history[i].changeType = "resumed"

\* C13: terminate succeeds from ACTIVE and from SUSPENDED, setting the status
\* TERMINATED and effectiveUntil to the current time; once TERMINATED, suspend,
\* resume and terminate fail and no step changes the status.
C13_TerminationAbsorbing ==
    [][/\ (AgreementCalled("terminate") /\ agreement.status \in {ACTIVE, SUSPENDED}) =>
              /\ agreementCall'.ok
              /\ agreement'.status = TERMINATED
              /\ agreement'.effectiveUntil = Some(now)
       /\ agreement.status = TERMINATED =>
              /\ agreement'.status = TERMINATED
              /\ (\E op \in {"suspend", "resume", "terminate"} : AgreementCalled(op)) =>
                     ~agreementCall'.ok /\ agreement' = agreement]_vars

\* the clock had advanced when the agreement was terminated, and a later call
\* of resume failed
C13_Witness ==
    /\ agreementCall.op = "resume"
    /\ ~agreementCall.ok
    /\ agreement.status = TERMINATED
    /\ agreement.effectiveUntil = Some(1)

\* the calls that record a history entry, and the change type each records
RecordingCalls ==
    {"updateName", "updateDescription", "updateSplitRule", "updateEffectivePeriod",
     "updateAlerts", "suspend", "resume", "terminate"}
ExpectedChangeType(op) ==
    CASE op = "suspend" -> "suspended"
      [] op = "resume" -> "resumed"
      [] op = "terminate" -> "terminated"
      [] OTHER -> "updated"

\* C15: construction records one 'created' entry; each successful updateName,
\* updateDescription, updateSplitRule, updateEffectivePeriod, updateAlerts,
\* suspend, resume or terminate appends exactly one entry carrying the actor id,
\* the change type and the reason given, and a failed call appends none; the
\* history length is always 1 plus the number of successful such calls.
C15_HistoryGrowth ==
    /\ [](/\ Len(agreement.history) = 1 + succeeded
          /\ Cardinality({i \in 1..Len(agreement.history) :
                              agreement.history[i].changeType = "created"}) = 1
          /\ succeeded = 0 => agreement.history[1].changeType = "created")
    /\ [][(\E op \in RecordingCalls : AgreementCalled(op)) =>
              IF agreementCall'.ok
              THEN LET entry == agreement'.history[Len(agreement'.history)]
                   IN  /\ agreement'.history = Append(agreement.history, entry)
                       /\ entry.changedBy = agreementCall'.changedBy
                       /\ entry.changeType = ExpectedChangeType(agreementCall'.op)
                       /\ agreementCall'.reason \notin {Undefined, Some("")} =>
                              entry.reason = agreementCall'.reason[1]
              ELSE agreement'.history = agreement.history]_vars

\* two calls have succeeded, the second one with a reason
C15_Witness ==
    /\ succeeded = 2
    /\ Len(agreement.history) = 3
    /\ agreementCall.op = "updateAlerts"
    /\ agreementCall.ok
    /\ agreementCall.reason = Some("why")
    /\ agreement.history[3].reason = "why"
    /\ agreement.history[3].changedBy = "p1"

\* C16: the history is append-only: no step removes or alters a recorded entry
\* or changes the stored order of the entries, the queries getHistoryInPeriod
\* and getRecentHistory included.
C16_HistoryAppendOnly ==
    [][/\ Len(agreement'.history) >= Len(agreement.history)
       /\ \A i \in 1..Len(agreement.history) :
              agreement'.history[i] = agreement.history[i]]_vars

----------------------------------------------------------------------------
(* Claims about Household, checked under SpecHousehold *)

\* C14: the household never holds two agreements of one type that are both
\* active (status ACTIVE and the current date inside the effective window).
C14_OneActivePerType ==
    \A i, j \in 1..Len(household.agreements) :
        (/\ household.agreements[i] # household.agreements[j]
         /\ pool[household.agreements[i]].type = pool[household.agreements[j]].type
         /\ Agreement_isActive(pool[household.agreements[i]], now))
            => ~Agreement_isActive(pool[household.agreements[j]], now)

----------------------------------------------------------------------------
(* Claims about BudgetEnvelope, checked under SpecEnvelope *)

\* spent / limit x 100 >= threshold, in cents; the percentage of a zero limit is 0
SpentPercentAtLeast(threshold) ==
    LET spentCents == envelope.spent.amountInCents
        limitCents == envelope.limit.amountInCents
    IN  IF limitCents = 0 THEN 0 >= threshold
        ELSE IF limitCents > 0 THEN 100 * spentCents >= threshold * limitCents
        ELSE 100 * spentCents <= threshold * limitCents

Least(set) == CHOOSE x \in set : \A y \in set : x <= y

\* the rollover, in cents, that resetForNewPeriod is to return: zero when
\* rollover is disabled or nothing is available, else the least of the
\* available amount, the maxAmount cap and available x percentage / 100
ExpectedRolloverCents(e) ==
    LET available == e.limit.amountInCents - e.spent.amountInCents
        settings  == e.rolloverSettings
        caps == {available}
                \cup (IF settings.maxAmount # Undefined
                      THEN {settings.maxAmount[1].amountInCents} ELSE {})
                \cup (IF settings.percentage # Undefined
                      THEN {MathRound(available * settings.percentage[1], 100)} ELSE {})
    IN  IF ~settings.enabled \/ available <= 0 THEN 0 ELSE Least(caps)

\* C18: resetForNewPeriod sets spent to zero and returns the rollover: zero when
\* rollover is disabled or available is not positive, otherwise the minimum of
\* available, the maxAmount cap if configured and available x percentage / 100
\* if a percentage is configured, a configured percentage of 0 included.
C18_ResetRollover ==
    [][envelopeCall'.op = "resetForNewPeriod" =>
          /\ envelopeCall'.ok
          /\ envelope'.spent = Money_zero(envelope.limit.currency)
          /\ envelopeCall'.value
                = Some(Money_fromCents(ExpectedRolloverCents(envelope),
                                       envelope.limit.currency))]_vars

\* the conditions under which addSpending and removeSpending are to fail
SpendingRejected(e, amount) ==
    amount.currency # e.limit.currency \/ amount.amountInCents < 0

\* C19: addSpending(a) and removeSpending(a) fail, leaving spent unchanged, when
\* a's currency is not the limit's or a is negative; otherwise addSpending adds
\* exactly a to spent and removeSpending takes exactly a from it, so that
\* addSpending(a) followed by removeSpending(a) restores the previous spent.
C19_SpendingGuards ==
    [][/\ envelopeCall'.op = "addSpending" =>
              IF SpendingRejected(envelope, envelopeCall'.amount)
              THEN ~envelopeCall'.ok /\ envelope' = envelope
              ELSE /\ envelopeCall'.ok
                   /\ envelope'.spent.amountInCents
                         = envelope.spent.amountInCents + envelopeCall'.amount.amountInCents
                   /\ envelope'.spent.currency = envelope.spent.currency
       /\ envelopeCall'.op = "removeSpending" =>
              IF SpendingRejected(envelope, envelopeCall'.amount)
              THEN ~envelopeCall'.ok /\ envelope' = envelope
              ELSE /\ envelopeCall'.ok
                   /\ envelope'.spent.amountInCents
                         = envelope.spent.amountInCents - envelopeCall'.amount.amountInCents
                   /\ envelope'.spent.currency = envelope.spent.currency
                   /\ envelopeCall'.undone # Undefined =>
                          envelope'.spent = envelopeCall'.undone[1]]_vars

\* one cent was added to a non-zero spent and removed again
C19_Witness ==
    /\ envelopeCall.op = "removeSpending"
    /\ envelopeCall.ok
    /\ envelopeCall.amount.amountInCents = 1
    /\ envelopeCall.undone # Undefined
    /\ envelope.spent.amountInCents = 2
    /\ envelope.spent = envelopeCall.undone[1]

----------------------------------------------------------------------------
(* Claims about accessors, checked under SpecCopies *)

\* what a caller can do to the array it was given and to its elements
CallerMutations == {"h.push", "h.pop", "h.reverse", "h[i].reason ="}

\* C20: a caller that only holds what Agreement.history returned cannot change
\* the agreement's internal state by adding, removing or reordering elements of
\* the returned array or by modifying a returned element.
C20_DefensiveCopies ==
    [][agreementCall'.op \in CallerMutations => agreement' = agreement]_vars

----------------------------------------------------------------------------
(* Claims about SplitRule construction and the amount check, under SpecSplit *)

\* the ids of a partner list
PartnerIds(partners) == {partners[i].partnerId : i \in 1..Len(partners)}

\* a config the constructor is to reject
RejectedConfig(config) ==
    \/ config.type = ""
    \/ Len(config.partners) = 0
    \/ Cardinality(PartnerIds(config.partners)) # Len(config.partners)
    \/ config.effectiveFrom = Undefined
    \/ /\ config.type = FIXED
       /\ \E i \in 1..Len(config.partners) :
             \/ config.partners[i].fixedAmount = Undefined
             \/ config.partners[i].fixedAmount[1].amountInCents < 0
    \/ /\ config.type = CUSTOM
       /\ \E i \in 1..Len(config.partners) : config.partners[i].customAmount = Undefined

\* C22: construction rejects a config with a missing type, no partner, duplicate
\* partner ids, a missing effectiveFrom, a FIXED partner without a fixed amount
\* or with a negative one, or a CUSTOM partner without a custom amount; so a
\* constructed rule has a non-empty list of pairwise distinct partner ids.
C22_ConstructionRejects ==
    /\ rule # Undefined =>
          /\ ~RejectedConfig(rule[1])
          /\ Len(rule[1].partners) > 0
          /\ \A i, j \in 1..Len(rule[1].partners) :
                rule[1].partners[i].partnerId = rule[1].partners[j].partnerId => i = j
    /\ (splitCall.op = "construct" /\ ~splitCall.ok) =>
          rule = Undefined /\ RejectedConfig(splitCall.config)

\* a config that repeats a partner id, and is well-formed otherwise, was rejected
C22_Witness ==
    /\ splitCall.op = "construct"
    /\ ~splitCall.ok
    /\ rule = Undefined
    /\ splitCall.config.type = EQUAL
    /\ splitCall.config.effectiveFrom # Undefined
    /\ Len(splitCall.config.partners) = 2
    /\ Cardinality(PartnerIds(splitCall.config.partners)) = 1

AmountErrors == {"Cannot split negative amounts", "Cannot split zero amounts"}

\* C25: split fails for every zero or negative amount, whatever the split type,
\* and with the amount check's error: before the strategy validates or computes.
C25_NonPositiveAmountFails ==
    (splitCall.op = "split" /\ splitCall.amount.amountInCents <= 0) =>
        /\ ~splitCall.result.ok
        /\ splitCall.result.error \in AmountErrors

\* a proportional rule was asked to split zero without incomes: the error is
\* the amount's, not the missing incomes'
C25_Witness ==
    /\ splitCall.op = "split"
    /\ rule[1].type = PROPORTIONAL
    /\ splitCall.partnerIncomes = Undefined
    /\ splitCall.amount.amountInCents = 0
    /\ ~splitCall.result.ok
    /\ splitCall.result.error = "Cannot split zero amounts"

----------------------------------------------------------------------------
(* Claims about the goal's amounts, under SpecGoal *)

\* C27: after any sequence of Goal operations currentAmount is not negative.
C27_CurrentNonNegative == goal.currentAmount.amountInCents >= 0

\* the sum, in cents, of the amounts of the entries of contributionHistory
LedgerCents ==
    SumOver([i \in 1..Len(goal.contributionHistory) |->
                goal.contributionHistory[i].amount.amountInCents],
            Len(goal.contributionHistory))

\* C29: after any sequence of Goal operations, whenever the status is not
\* COMPLETED, currentAmount equals the sum of the amounts in contributionHistory.
C29_LedgerConsistent ==
    goal.status # COMPLETED => goal.currentAmount.amountInCents = LedgerCents

----------------------------------------------------------------------------
(* Claims about Transaction, checked under SpecTransaction *)

\* the sum, in cents, of the amounts of splitDetails
SplitDetailsCents ==
    SumOver([i \in 1..Len(transaction.splitDetails) |->
                transaction.splitDetails[i].amount.amountInCents],
            Len(transaction.splitDetails))

\* C28: after any sequence of Transaction operations, splitDetails is empty or
\* its amounts sum exactly to the transaction's current amount.
C28_SplitDetailsReconcile ==
    \/ transaction.splitDetails = <<>>
    \/ /\ SplitDetailsCents = transaction.amount.amountInCents
       /\ \A i \in 1..Len(transaction.splitDetails) :
             transaction.splitDetails[i].amount.currency = transaction.amount.currency

----------------------------------------------------------------------------
(* Claims about failing calls, checked under SpecFailing *)

\* C21: whenever a mutator raises an error, every entity involved is as it was
\* before the call: an account, a transaction or an agreement changes only in a
\* step whose call returned normally.
C21_ValidateFirst ==
    [][/\ accounts' # accounts => accountCall'.ok
       /\ transaction' # transaction => transactionCall'.ok
       /\ agreement' # agreement => agreementCall'.ok]_vars

\* C23: SplitRule is immutable: no step of the caller on the config object, the
\* partner array or the values it got from the rule's getters changes the rule's
\* type, partner list or effective window, so rule.split(amount) gives the same
\* result before and after every such step
C23_SplitRuleImmutable ==
    [][/\ SplitRule_config(aliasHeap') = SplitRule_config(aliasHeap)
       /\ \A amount \in AliasAmounts :
             SplitRule_split(SplitRule_config(aliasHeap'), amount, Undefined)
                 = SplitRule_split(SplitRule_config(aliasHeap), amount, Undefined)]_vars

\* C24: a constructor called with an empty or whitespace-only name throws, and no
\* object comes to exist, as updateName throws on such a name
C24_EmptyNameRejected ==
    (constructed.op = "constructor" /\ Trim(constructed.name) = "")
        => (~constructed.ok /\ constructed.object = Undefined)

\* C26: every Money operation whose exact result has fractional cents (construction
\* from a decimal amount, multiply, divide) stores the cent nearest to the exact
\* result, a tie going upwards
C26_RoundsHalfUp ==
    rounded.op \in {"divide", "multiply", "constructor"}
        => rounded.cents = MathRound(rounded.exact[1], rounded.exact[2])

\* C30: whatever the interleaving of the execute calls, no two saved households
\* have the same name, and an execute that failed has saved nothing
C30_UniqueNames ==
    /\ \A i, j \in 1..Len(repository) :
          repository[i].name = repository[j].name => i = j
    /\ \A p \in Executions :
          executions[p].pc = "failed" => \A i \in 1..Len(repository) : repository[i].id # p

\* C31: BudgetEnvelope.spent is never negative, whatever addSpending,
\* removeSpending and resetForNewPeriod calls were made
C31_SpentNonNegative == envelope.spent.amountInCents >= 0

\* a step that is a transferTo call which returned
TransferReturned ==
    /\ accountVars' # accountVars
    /\ accountCall'.op = "transferTo"
    /\ accountCall'.ok

\* the balance of the account `id`, in cents
BalanceCents(heap, id) == heap[id].balance.amountInCents

RECURSIVE TotalCents(_, _)
TotalCents(heap, ids) ==
    IF ids = {} THEN 0
    ELSE LET id == CHOOSE x \in ids : TRUE
         IN  BalanceCents(heap, id) + TotalCents(heap, ids \ {id})

\* what every transferTo that returned satisfies, whichever the target
TransferAccepted(source, target, amount) ==
    /\ amount.amountInCents > 0
    /\ amount.currency = accounts[source].currency
    /\ amount.amountInCents <= BalanceCents(accounts, source)
    /\ accounts[target].currency = accounts[source].currency
    /\ TotalCents(accounts', AccountIds) = TotalCents(accounts, AccountIds)
    /\ BalanceCents(accounts, source) >= 0 => BalanceCents(accounts', source) >= 0
    /\ \A id \in AccountIds \ {source, target} : accounts'[id] = accounts[id]

\* C32 as stated: a transferTo that returned had a positive amount in the source's
\* currency, not above the source balance, and a target of the same currency; it
\* took exactly the amount from the source and gave exactly the amount to the
\* target; the total of the balances is conserved and the source stays non-negative
C32_TransferAsStated ==
    [][TransferReturned =>
         LET source == accountCall'.source
             target == accountCall'.target
             amount == accountCall'.amount
         IN  /\ TransferAccepted(source, target, amount)
             /\ BalanceCents(accounts', source)
                    = BalanceCents(accounts, source) - amount.amountInCents
             /\ BalanceCents(accounts', target)
                    = BalanceCents(accounts, target) + amount.amountInCents]_vars

\* C32, amended: the source loses and the target gains exactly the amount when the
\* target is another account; a transfer to the source account itself leaves its
\* balance as it was
C32_TransferAmended ==
    [][TransferReturned =>
         LET source == accountCall'.source
             target == accountCall'.target
             amount == accountCall'.amount
         IN  /\ TransferAccepted(source, target, amount)
             /\ source # target =>
                  /\ BalanceCents(accounts', source)
                         = BalanceCents(accounts, source) - amount.amountInCents
                  /\ BalanceCents(accounts', target)
                         = BalanceCents(accounts, target) + amount.amountInCents
             /\ source = target => accounts' = accounts]_vars

\* a transfer between two accounts returned and moved money
C32_Witness ==
    /\ accountCall.op = "transferTo"
    /\ accountCall.ok
    /\ accountCall.source # accountCall.target
    /\ BalanceCents(accounts, accountCall.target) > 0

\* C33: getRecentContributions and getContributionsInPeriod are pure queries: a
\* call of either leaves contributionHistory, its entries and their stored order,
\* and every other field of the goal as they were
C33_QueriesPure ==
    [][(now' = now
        /\ last'.op \in {"getRecentContributions", "getContributionsInPeriod"})
       => goal' = goal]_vars

\* the ids of the partners of a household, as a set
HouseholdPartnerSet(h) == {h.partners[i] : i \in 1..Len(h.partners)}

\* C34: after every addPartner/removePartner call the household has at most 2
\* partners, of pairwise distinct ids; addPartner throws, leaving the household as
\* it was, exactly when there are 2 partners already or the id is among them, and
\* otherwise appends the partner; removePartner throws exactly for an id that is
\* not among them, and otherwise removes that partner alone
C34_PartnerInvariant ==
    [][LET id    == householdCall'.id
           had   == HouseholdPartnerSet(household)
           has   == HouseholdPartnerSet(household')
       IN  /\ Len(household'.partners) <= 2
           /\ Cardinality(has) = Len(household'.partners)
           /\ householdCall'.op = "addPartner" =>
                 /\ householdCall'.ok <=> (Len(household.partners) < 2 /\ id \notin had)
                 /\ householdCall'.ok => household'.partners = Append(household.partners, id)
                 /\ ~householdCall'.ok => household' = household
           /\ householdCall'.op = "removePartner" =>
                 /\ householdCall'.ok <=> id \in had
                 /\ householdCall'.ok => has = had \ {id}
                 /\ ~householdCall'.ok => household' = household]_vars

\* a full household has refused a third partner, and one of its two was removed before
C34_Witness ==
    /\ householdCall.op = "addPartner"
    /\ ~householdCall.ok
    /\ Len(household.partners) = 2
    /\ householdCall.id \notin HouseholdPartnerSet(household)
    /\ household.partners[1] > household.partners[2]

----------------------------------------------------------------------------
(* C35: Transaction.updateSplitDetails *)

\* the amounts of the details are all in the currency of `amount` and their
\* cents add up to the cents of `amount`
RECURSIVE DetailCents(_)
DetailCents(splitDetails) ==
    IF splitDetails = <<>> THEN 0
    ELSE Head(splitDetails).amount.amountInCents + DetailCents(Tail(splitDetails))

SumsExactlyTo(splitDetails, amount) ==
    /\ \A i \in 1..Len(splitDetails) : splitDetails[i].amount.currency = amount.currency
    /\ DetailCents(splitDetails) = amount.amountInCents

\* C35: updateSplitDetails(details) replaces splitDetails with the list passed
\* if and only if the amounts of the list sum exactly to the amount of the
\* transaction; otherwise the call fails and splitDetails keeps the value it had.
C35_UpdateSplitDetails ==
    [][transactionCall'.op = "updateSplitDetails" =>
        LET details == transactionCall'.splitDetails
        IN  IF SumsExactlyTo(details, transaction.amount)
            THEN /\ transactionCall'.ok
                 /\ transaction'.splitDetails = details
            ELSE /\ ~transactionCall'.ok
                 /\ transaction'.splitDetails = transaction.splitDetails]_vars

\* a list of two details replaced a list of one, and a later list was refused
C35_Witness ==
    /\ transactionCall.op = "updateSplitDetails"
    /\ ~transactionCall.ok
    /\ Len(transactionCall.splitDetails) = 1
    /\ Len(transaction.splitDetails) = 2
    /\ transaction.splitDetails \in ManualSplitDetails

----------------------------------------------------------------------------
(* C36: Agreement.shouldAlert *)

\* the partner of entry i of `expectedSplit` is in both records, its expected
\* amount is not zero and |actual - expected| / expected * 100 > threshold
Deviates(actualSplit, expectedSplit, i, threshold) ==
    /\ Lookup(actualSplit, expectedSplit[i][1]) # Undefined
    /\ expectedSplit[i][2].amountInCents # 0
    /\ Abs(Lookup(actualSplit, expectedSplit[i][1])[1].amountInCents
           - expectedSplit[i][2].amountInCents) * 100
          > threshold * expectedSplit[i][2].amountInCents

\* C36: shouldAlert(actual, expected) is true if and only if alerts are enabled
\* and some partner present in both records, with a non-zero expected amount,
\* has |actual - expected| / expected * 100 strictly greater than
\* thresholdPercentage; partners missing from actual or with zero expected
\* never trigger, and the order of the entries does not matter.
C36_ShouldAlert ==
    agreementCall.op = "shouldAlert" =>
        (agreementCall.value <=>
            /\ agreement.alerts.enabled
            /\ \E i \in 1..Len(agreementCall.expectedSplit) :
                  Deviates(agreementCall.actualSplit, agreementCall.expectedSplit, i,
                           agreement.alerts.thresholdPercentage))

----------------------------------------------------------------------------
(* C37: Agreement.isActiveOn *)

ActiveDates(a) == {date \in Dates : Agreement_isActiveOn(a, date)}

----------------------------------------------------------------------------
(* C38: the proportional split *)

\* a proportional rule was asked to split an amount that validateAmount accepts
ProportionalSplitCalled ==
    /\ splitCall.op = "split"
    /\ rule[1].type = PROPORTIONAL
    /\ splitCall.amount.amountInCents > 0

\* the partner of the rule has no income in the map, an income in another
\* currency than the amount, or an income that is zero or negative
InvalidIncome(incomes, partner, amount) ==
    \/ partner.partnerId \notin DOMAIN incomes
    \/ incomes[partner.partnerId].currency # amount.currency
    \/ incomes[partner.partnerId].amountInCents <= 0

RECURSIVE TotalIncomeCents(_, _)
TotalIncomeCents(incomes, partners) ==
    IF partners = <<>> THEN 0
    ELSE incomes[Head(partners).partnerId].amountInCents
         + TotalIncomeCents(incomes, Tail(partners))

\* `share` is amount * (income / totalIncome) rounded to the cent: no further
\* than half a cent from it
RoundedShare(share, amount, income, totalIncome) ==
    LET part == Ratio(income, totalIncome)
    IN  /\ share.currency = amount.currency
        /\ 2 * Abs(share.amountInCents * part.den - amount.amountInCents * part.num)
              <= part.den

----------------------------------------------------------------------------
(* C39: the owners of a Goal *)

\* at least one owner, and no partner twice
OwnersWellFormed(ownerIds) ==
    /\ Len(ownerIds) >= 1
    /\ \A i \in 1..Len(ownerIds), j \in 1..Len(ownerIds) :
          ownerIds[i] = ownerIds[j] => i = j

\* C39: in every reachable state a goal has at least one owner and no owner
\* twice; addOwner fails for an id already in the list, removeOwner fails for
\* an id not in the list and when it would remove the last owner, and a failed
\* call leaves the list unchanged.
C39_OwnerList ==
    [][/\ OwnersWellFormed(goal.ownerIds)
       /\ OwnersWellFormed(goal'.ownerIds)
       /\ (last'.op = "addOwner" /\ Includes(goal.ownerIds, last'.partnerId)) => ~last'.ok
       /\ (/\ last'.op = "removeOwner"
           /\ \/ ~Includes(goal.ownerIds, last'.partnerId)
              \/ Len(goal.ownerIds) = 1) => ~last'.ok
       /\ (last'.op \in {"addOwner", "removeOwner"} /\ ~last'.ok)
              => goal'.ownerIds = goal.ownerIds]_vars

----------------------------------------------------------------------------
(* C40: pause, resume and cancel of a Goal *)

\* C40: pause fails on a COMPLETED goal and otherwise sets PAUSED; resume
\* succeeds only on a PAUSED goal and sets ACTIVE; cancel fails on a COMPLETED
\* goal and otherwise sets CANCELLED; a failed call changes nothing, and none of
\* the three changes currentAmount or contributionHistory.
C40_LifecycleGuards ==
    [][/\ last'.op = "pause" =>
              IF goal.status = COMPLETED
              THEN ~last'.ok /\ goal' = goal
              ELSE last'.ok /\ goal'.status = PAUSED
       /\ last'.op = "resume" =>
              IF goal.status = PAUSED
              THEN last'.ok /\ goal'.status = ACTIVE
              ELSE ~last'.ok /\ goal' = goal
       /\ last'.op = "cancel" =>
              IF goal.status = COMPLETED
              THEN ~last'.ok /\ goal' = goal
              ELSE last'.ok /\ goal'.status = CANCELLED
       /\ last'.op \in {"pause", "resume", "cancel"} =>
              /\ goal'.currentAmount = goal.currentAmount
              /\ goal'.contributionHistory = goal.contributionHistory]_vars

\* pause was refused on a goal that its contributions had completed
C40_Witness ==
    /\ last.op = "pause"
    /\ ~last.ok
    /\ goal.status = COMPLETED
    /\ goal.contributionHistory # <<>>
    /\ goal.currentAmount = goal.targetAmount

====
